---------------------------- MODULE Spec2Model ----------------------------
(***************************************************************************)
(* A model of the packagegraph ingestion pipeline: the dependency-string   *)
(* parser, the Debian and RPM graph emitters, and the chunked collection   *)
(* coordinator (BaseCollector.collect_parallel) with its process pool,     *)
(* hand-off temp files and merge into the combined graph.                  *)
(*                                                                         *)
(* Strings are sequences of one-character strings, so that split, strip,   *)
(* lower, quote and the regular expression are computed character by       *)
(* character.  An RDF term is a triple <<kind, chars, n>>: kind "deb" or   *)
(* "rpm" (a URI in that namespace, chars its local part), "rdf" (a URI of  *)
(* the RDF vocabulary), "lit" (a literal) or "bnode" (a blank node, n its  *)
(* label).  A graph is a set of <<subject, predicate, object>> triples.    *)
(***************************************************************************)
EXTENDS Integers, Sequences, FiniteSets, TLC

VARIABLES
    \* ---- the dependency parser run (SpecDep)
    dep_string,      \* the raw dependency field handed to the parser
    dependencies,    \* the list the parser returned
    dep_pc,          \* "call" before the parser ran, "returned" after
    \* ---- one collect() run (Spec)
    eco,             \* "deb" (DebianCollector) or "rpm" (RpmCollector)
    parallel,        \* self.parallel
    chunk_size,      \* self.chunk_size
    workers,         \* self.workers
    primary,         \* the raw entries of the repository's primary metadata
    packages_data,   \* the normalized package records
    manifest,        \* the manifest items (Contents lines / filelists packages)
    other_data,      \* the changelog items of the RPM 'other' metadata
    g,               \* self.g, the combined graph
    bnode_ctr,       \* blank nodes created so far in the coordinating process
    pkg_map,         \* the name index built by _build_package_map
    pc,              \* the coordinator's position in collect()
    stage,           \* which use of collect_parallel is running
    entry_g,         \* the combined graph when collect_parallel was entered
    chunks,          \* the chunks of the running collect_parallel call
    futures,         \* state of each submitted chunk
    fs,              \* the hand-off temp files: chunk index -> serialized graph
    temp_files,      \* the file names collected from the futures, in order
    next_future,     \* index of the future whose result() is awaited next
    merge_pos,       \* index in temp_files of the file merged next
    processed_count, \* what collect_parallel / the emitter returned
    outcome,         \* "running", "returned" or "error"
    \* ---- what the mirror answered, [status, lines], status "none" before the request
    release_resp,    \* Debian: the Release file; RPM: repomd.xml and the primary listing
    manifest_resp,   \* Debian: the Contents file; RPM: repomd.xml and the filelists
    \* ---- history of the run, for the claims
    runs,            \* per chunk: how many times a worker started it
    merged,          \* chunk indices in the order they were merged into g
    \* ---- a second run of the pipeline over the same inputs (SpecTwice)
    first_run,       \* [done, g, answers]: the graph the first, finished run
                     \* produced and what the mirror answered it
    \* ---- one call of merge_turtle_files (SpecMerge)
    mt_files,        \* the content of each file of temp_files: its lines
    mt_exists,       \* per file of temp_files: it is still on disk
    mt_out,          \* the lines written to output_file so far
    mt_i,            \* the position in temp_files of the file handled next
    mt_pc,           \* "loop" inside the for loop, "closed" after it
    \* ---- the profiler (SpecProf)
    pf_enabled,      \* profiler.enabled
    pf_current,      \* profiler.current_step, "None" for None
    pf_start,        \* profiler.step_start, NoTime for None
    pf_timings,      \* profiler.timings: step name -> list of durations
    pf_stack,        \* the step() calls that are open: [name, start_time, timed]
    pf_clock,        \* time.time()
    pf_raising,      \* an exception is leaving the open steps
    pf_log,          \* what the last log() call printed, and where it was called
    pf_finished      \* step name -> how many executions of the step have ended

dvars == <<dep_string, dependencies, dep_pc>>
config == <<eco, parallel, chunk_size, workers, primary, packages_data, manifest, other_data>>
responses == <<release_resp, manifest_resp>>
cvars == <<g, bnode_ctr, pkg_map, pc, stage, entry_g, chunks, futures, fs, temp_files,
           next_future, merge_pos, processed_count, outcome>>
hvars == <<runs, merged>>
mvars == <<mt_files, mt_exists, mt_out, mt_i, mt_pc>>
pvars == <<pf_enabled, pf_current, pf_start, pf_timings, pf_stack, pf_clock, pf_raising,
           pf_log, pf_finished>>
ovars == <<first_run, mvars, pvars>>
vars == <<dvars, ovars, config, responses, cvars, hvars>>

None == <<"none">>

-----------------------------------------------------------------------------
(* Strings *)

Upper == <<"A","B","C","D","E","F","G","H","I","J","K","L","M",
           "N","O","P","Q","R","S","T","U","V","W","X","Y","Z">>
Lower == <<"a","b","c","d","e","f","g","h","i","j","k","l","m",
           "n","o","p","q","r","s","t","u","v","w","x","y","z">>
Digits == {"0","1","2","3","4","5","6","7","8","9"}

Range(s) == {s[i] : i \in DOMAIN s}

\* the k-th smallest element of a set of integers
KthOf(S, k) == CHOOSE i \in S : Cardinality({j \in S : j <= i}) = k

\* \w plus '.' and '-': the character class [\w.-] of dep_pattern
IsWordChar(c) == c \in Range(Upper) \cup Range(Lower) \cup Digits \cup {"_", ".", "-"}

\* what str.strip() and \s take for whitespace
IsSpace(c) == c \in {" ", "\t", "\n", "\r"}

\* str.lower(), one character
LowerChar(c) ==
    IF c \in Range(Upper) THEN Lower[CHOOSE i \in DOMAIN Upper : Upper[i] = c] ELSE c

\* str.lower()
ToLower(s) == [i \in DOMAIN s |-> LowerChar(s[i])]

\* str.replace('-', '')
RemoveDashes(s) == SelectSeq(s, LAMBDA c : c # "-")

\* str.split(sep) for a one-character separator: always at least one piece
RECURSIVE SplitFrom(_, _, _, _)
SplitFrom(s, sep, i, cur) ==
    IF i > Len(s) THEN <<cur>>
    ELSE IF s[i] = sep THEN <<cur>> \o SplitFrom(s, sep, i + 1, <<>>)
    ELSE SplitFrom(s, sep, i + 1, Append(cur, s[i]))

Split(s, sep) == SplitFrom(s, sep, 1, <<>>)

\* str.strip(): leading and trailing whitespace removed
Strip(s) ==
    LET keep == {i \in DOMAIN s : ~IsSpace(s[i])}
    IN  IF keep = {} THEN <<>>
        ELSE LET lo == CHOOSE i \in keep : \A j \in keep : i <= j
                 hi == CHOOSE i \in keep : \A j \in keep : j <= i
             IN  SubSeq(s, lo, hi)


-----------------------------------------------------------------------------
(* The dependency grammar parser: _parse_dependency_string and its copy    *)
(* _parse_dependency_string_static inside _process_package_chunk.          *)

\* ([\w.-]+) at the start of s: the length of the longest prefix of word
\* characters (the greedy + never gives a character back: what follows it in
\* the pattern is optional, and could only start with whitespace).
RECURSIVE NameEnd(_, _)
NameEnd(s, i) ==
    IF i <= Len(s) /\ IsWordChar(s[i]) THEN NameEnd(s, i + 1) ELSE i - 1

\* \s+ from position i: the end of the longest run of whitespace (i - 1 when
\* there is none)
RECURSIVE SpaceEnd(_, _)
SpaceEnd(s, i) ==
    IF i <= Len(s) /\ IsSpace(s[i]) THEN SpaceEnd(s, i + 1) ELSE i - 1

\* [^)]+ from position i: the end of the longest run of characters other than
\* ')' (i - 1 when there is none)
RECURSIVE InnerEnd(_, _)
InnerEnd(s, i) ==
    IF i <= Len(s) /\ s[i] # ")" THEN InnerEnd(s, i + 1) ELSE i - 1

\* (?:\s+\(([^)]+)\))? tried right after position n of s: group 2, or None
\* when the optional group does not take part in the match.  Neither run can
\* end earlier: the character after \s+ must be '(' and the one after [^)]+
\* must be ')', and neither belongs to the run before it.
ConstraintGroup(s, n) ==
    LET ws == SpaceEnd(s, n + 1)
        open == ws + 1
        inner == InnerEnd(s, open + 1)
    IN  IF /\ ws >= n + 1
           /\ open <= Len(s) /\ s[open] = "("
           /\ inner >= open + 1
           /\ inner + 1 <= Len(s) /\ s[inner + 1] = ")"
        THEN SubSeq(s, open + 1, inner)
        ELSE None

\* dep_pattern.match(s): None, or <<group(1), group(2)>>
DepPatternMatch(s) ==
    LET n == NameEnd(s, 1)
    IN  IF n = 0 THEN None ELSE <<SubSeq(s, 1, n), ConstraintGroup(s, n)>>

\* alternatives = [d.strip() for d in part.split('|')]
Alternatives(part) ==
    LET ds == Split(part, "|") IN [i \in DOMAIN ds |-> Strip(ds[i])]

LastAlternative(alternatives) == alternatives[Len(alternatives)]

\* first_alternative = alternatives[0]
FirstAlternative(alternatives) == alternatives[1]

RECURSIVE ParsePartsStopAtMismatch(_, _, _)
ParsePartsStopAtMismatch(parts, i, acc) ==
    IF i > Len(parts) THEN acc
    ELSE LET match == DepPatternMatch(FirstAlternative(Alternatives(parts[i])))
         IN  IF match # None
             THEN ParsePartsStopAtMismatch(parts, i + 1, Append(acc, match))
             ELSE acc

\* the loop over dep_string.split(','), appending a pair per match
RECURSIVE ParseParts(_, _, _)
ParseParts(parts, i, acc) ==
    IF i > Len(parts) THEN acc
    ELSE LET match == DepPatternMatch(FirstAlternative(Alternatives(parts[i])))
         IN  ParseParts(parts, i + 1,
                        IF match # None THEN Append(acc, match) ELSE acc)

ParseDependencyString(s) == ParseParts(Split(s, ","), 1, <<>>)

\* "first_alternative = alternatives[0]" raises IndexError on an empty list
ParseRaises(s) ==
    \E i \in DOMAIN Split(s, ",") : Alternatives(Split(s, ",")[i]) = <<>>

-----------------------------------------------------------------------------
(* RDF terms, the identity scheme and the graph emitters *)

Uri(ns, chars) == <<ns, chars, 0>>
Lit(chars) == <<"lit", chars, 0>>
BNode(n) == <<"bnode", <<>>, n>>
IsBNode(t) == t[1] = "bnode"

\* RDF.type
RdfType == Uri("rdf", <<"t","y","p","e">>)

\* urllib.parse.quote, one character: letters, digits, '_', '.', '-', '~' and
\* '/' are kept, every other character becomes %XX
QuoteChar(c) ==
    IF IsWordChar(c) \/ c \in {"~", "/"} THEN <<c>>
    ELSE CASE c = " " -> <<"%","2","0">>
           [] c = "%" -> <<"%","2","5">>
           [] c = "(" -> <<"%","2","8">>
           [] c = ")" -> <<"%","2","9">>
           [] c = "+" -> <<"%","2","B">>
           [] c = "," -> <<"%","2","C">>
           [] c = ":" -> <<"%","3","A">>
           [] c = "<" -> <<"%","3","C">>
           [] c = "=" -> <<"%","3","D">>
           [] c = ">" -> <<"%","3","E">>
           [] c = "|" -> <<"%","7","C">>

\* urllib.parse.quote
RECURSIVE Quote(_)
Quote(s) == IF s = <<>> THEN <<>> ELSE QuoteChar(Head(s)) \o Quote(Tail(s))

\* a dict kept as its items in insertion order: <<key, value>> pairs
HasKey(d, k) == \E i \in DOMAIN d : d[i][1] = k
Get(d, k) == d[CHOOSE i \in DOMAIN d : d[i][1] = k][2]

kPackage == <<"P","a","c","k","a","g","e">>
kVersion == <<"V","e","r","s","i","o","n">>
kDepends == <<"D","e","p","e","n","d","s">>
kRecommends == <<"R","e","c","o","m","m","e","n","d","s">>
kSuggests == <<"S","u","g","g","e","s","t","s">>
kConflicts == <<"C","o","n","f","l","i","c","t","s">>
kReplaces == <<"R","e","p","l","a","c","e","s">>
kProvides == <<"P","r","o","v","i","d","e","s">>
kPreDepends == <<"P","r","e","-","D","e","p","e","n","d","s">>

\* the dep_key list of both Debian emitters
DepKeys == <<kDepends, kRecommends, kSuggests, kConflicts, kReplaces, kProvides>>

\* pkg_uri = URIRef(f"{DEB}{quote(pkg_id)}"), pkg_id = f"{pkg_name}-{pkg_version}"
DebPkgUri(pkg_data) ==
    Uri("deb", Quote(Get(pkg_data, kPackage) \o <<"-">> \o Get(pkg_data, kVersion)))

\* the type, suite, name and version triples of one Debian package
DebCoreTriples(pkg_data, codename) ==
    LET pkg_uri == DebPkgUri(pkg_data)
    IN  { <<pkg_uri, RdfType,
            Uri("deb", <<"D","e","b","i","a","n","P","a","c","k","a","g","e">>)>>,
          <<pkg_uri, Uri("deb", <<"i","n","S","u","i","t","e">>), Uri("deb", codename)>>,
          <<pkg_uri, Uri("deb", <<"n","a","m","e">>), Lit(Get(pkg_data, kPackage))>>,
          <<pkg_uri, Uri("deb", <<"v","e","r","s","i","o","n">>), Lit(Get(pkg_data, kVersion))>> }

\* "Add package properties": one literal per field whose lowered, dash-free
\* name is neither 'package' nor 'version'
DebPropertyTriples(pkg_data) ==
    { <<DebPkgUri(pkg_data), Uri("deb", RemoveDashes(ToLower(pkg_data[i][1]))),
        Lit(pkg_data[i][2])>> :
        i \in {j \in DOMAIN pkg_data :
                 RemoveDashes(ToLower(pkg_data[j][1])) \notin
                     {ToLower(kPackage), ToLower(kVersion)}} }

\* the triples of one parsed dependency hung on blank node b
DebDependencyTriples(pkg_uri, dep_key, dep, b) ==
    { <<pkg_uri, Uri("deb", ToLower(dep_key)), BNode(b)>>,
      <<BNode(b), Uri("deb", <<"p","a","c","k","a","g","e","N","a","m","e">>), Lit(dep[1])>> }
    \cup (IF dep[2] # None /\ dep[2] # <<>>
          THEN { <<BNode(b),
                   Uri("deb", <<"v","e","r","s","i","o","n","C","o","n","s","t","r","a","i","n","t">>),
                   Lit(dep[2])>> }
          ELSE {})

\* "Process dependencies": the parsed dependencies of every dep_key present in
\* pkg_data, in emission order, as <<dep_key, pair>>
RECURSIVE DebDependencyList(_, _)
DebDependencyList(pkg_data, k) ==
    IF k > Len(DepKeys) THEN <<>>
    ELSE (IF HasKey(pkg_data, DepKeys[k])
          THEN LET deps == ParseDependencyString(Get(pkg_data, DepKeys[k]))
               IN  [i \in DOMAIN deps |-> <<DepKeys[k], deps[i]>>]
          ELSE <<>>) \o DebDependencyList(pkg_data, k + 1)

\* the body of the loop over packages_chunk of _process_package_chunk: what
\* one record adds to a graph whose process has created b0 blank nodes so
\* far.  [triples, bnodes]
DebEmitPackage(pkg_data, codename, b0) ==
    LET deps == DebDependencyList(pkg_data, 1)
    IN  [triples |-> DebCoreTriples(pkg_data, codename)
                     \cup DebPropertyTriples(pkg_data)
                     \cup UNION { DebDependencyTriples(DebPkgUri(pkg_data),
                                                       deps[i][1], deps[i][2], b0 + i) :
                                  i \in DOMAIN deps },
         bnodes |-> b0 + Len(deps)]

\* pkg_uri = URIRef(f"{RPM}{quote(pkg_id)}"),
\* pkg_id = f"{name}-{version}-{release}.{arch}"
RpmPkgUri(pkg_data) ==
    Uri("rpm", Quote(pkg_data.name \o <<"-">> \o pkg_data.version \o <<"-">>
                     \o pkg_data.release \o <<".">> \o pkg_data.arch))

\* the triples of one rpm:requires entry hung on blank node b
RpmRequiresTriples(pkg_uri, dep_entry, b) ==
    { <<pkg_uri, Uri("rpm", <<"r","e","q","u","i","r","e","s">>), BNode(b)>> }
    \cup (IF dep_entry.name # None /\ dep_entry.name # <<>>
          THEN { <<BNode(b),
                   Uri("rpm", <<"d","e","p","e","n","d","e","n","c","y","N","a","m","e">>),
                   Lit(dep_entry.name)>> }
          ELSE {})
    \cup (IF dep_entry.ver # None /\ dep_entry.ver # <<>>
          THEN { <<BNode(b),
                   Uri("rpm", <<"d","e","p","e","n","d","e","n","c","y","V","e","r","s","i","o","n">>),
                   Lit(dep_entry.ver)>> }
          ELSE {})

\* the body of the loop over packages of RpmCollector._process_package_chunk
RpmEmitPackage(pkg_data, b0) ==
    LET pkg_uri == RpmPkgUri(pkg_data)
        reqs == IF pkg_data.format_element.present
                THEN pkg_data.format_element.requires ELSE <<>>
    IN  [triples |->
            { <<pkg_uri, RdfType, Uri("rpm", <<"R","p","m","P","a","c","k","a","g","e">>)>>,
              <<pkg_uri, Uri("rpm", <<"n","a","m","e">>), Lit(pkg_data.name)>>,
              <<pkg_uri, Uri("rpm", <<"v","e","r","s","i","o","n">>), Lit(pkg_data.version)>>,
              <<pkg_uri, Uri("rpm", <<"r","e","l","e","a","s","e">>), Lit(pkg_data.release)>>,
              <<pkg_uri, Uri("rpm", <<"a","r","c","h">>), Lit(pkg_data.arch)>> }
            \cup (IF pkg_data.summary # None /\ pkg_data.summary # <<>>
                  THEN { <<pkg_uri, Uri("rpm", <<"s","u","m","m","a","r","y">>),
                           Lit(pkg_data.summary)>> }
                  ELSE {})
            \cup (IF pkg_data.description # None /\ pkg_data.description # <<>>
                  THEN { <<pkg_uri,
                           Uri("rpm", <<"d","e","s","c","r","i","p","t","i","o","n">>),
                           Lit(pkg_data.description)>> }
                  ELSE {})
            \cup UNION { RpmRequiresTriples(pkg_uri, reqs[i], b0 + i) : i \in DOMAIN reqs },
         bnodes |-> b0 + Len(reqs)]

-----------------------------------------------------------------------------
(* The name index and the manifest linkers *)

\* str.split() without argument: the maximal runs of non-whitespace
RECURSIVE SplitWsFrom(_, _, _)
SplitWsFrom(s, i, cur) ==
    IF i > Len(s) THEN (IF cur = <<>> THEN <<>> ELSE <<cur>>)
    ELSE IF IsSpace(s[i])
         THEN (IF cur = <<>> THEN <<>> ELSE <<cur>>) \o SplitWsFrom(s, i + 1, <<>>)
         ELSE SplitWsFrom(s, i + 1, Append(cur, s[i]))

SplitWhitespace(s) == SplitWsFrom(s, 1, <<>>)

DebMapUriUnquoted(pkg_data) ==
    Uri("deb", Get(pkg_data, kPackage) \o <<"-">> \o Get(pkg_data, kVersion))

\* the pkg_uri DebianCollector._build_package_map computes for a record
DebMapUri(pkg_data) ==
    Uri("deb", Quote(Get(pkg_data, kPackage) \o <<"-">> \o Get(pkg_data, kVersion)))

\* the pkg_uri RpmCollector._build_package_map computes for a record
RpmMapUri(pkg_data) ==
    Uri("rpm", Quote(pkg_data.name \o <<"-">> \o pkg_data.version \o <<"-">>
                     \o pkg_data.release \o <<".">> \o pkg_data.arch))

DebBuildPackageMapFirstWins(pkgs) ==
    [n \in {Get(pkgs[i], kPackage) : i \in DOMAIN pkgs} |->
        DebMapUri(pkgs[CHOOSE i \in DOMAIN pkgs :
                         /\ Get(pkgs[i], kPackage) = n
                         /\ \A j \in DOMAIN pkgs : Get(pkgs[j], kPackage) = n => i <= j])]

\* DebianCollector._build_package_map: package name -> URI, a later record
\* of the same name overwriting an earlier one
DebBuildPackageMap(pkgs) ==
    [n \in {Get(pkgs[i], kPackage) : i \in DOMAIN pkgs} |->
        DebMapUri(pkgs[CHOOSE i \in DOMAIN pkgs :
                         /\ Get(pkgs[i], kPackage) = n
                         /\ \A j \in DOMAIN pkgs : Get(pkgs[j], kPackage) = n => j <= i])]

\* RpmCollector._build_package_map: pkgid -> URI, the last record winning
RpmBuildPackageMap(pkgs) ==
    [n \in {pkgs[i].pkgid : i \in DOMAIN pkgs} |->
        RpmMapUri(pkgs[CHOOSE i \in DOMAIN pkgs :
                         /\ pkgs[i].pkgid = n
                         /\ \A j \in DOMAIN pkgs : pkgs[j].pkgid = n => j <= i])]

DebEmitContentsLineKeepSection(line, map) ==
    LET parts == SplitWhitespace(Strip(line))
    IN  IF Len(parts) < 2 THEN {}
        ELSE LET pkg_names == Split(parts[Len(parts)], ",")
             IN  { <<map[pkg_names[i]], Uri("deb", <<"f","i","l","e","N","a","m","e">>),
                     Lit(parts[1])>> :
                     i \in {j \in DOMAIN pkg_names : pkg_names[j] \in DOMAIN map} }

\* the body of the loop over lines of _process_contents_chunk
DebEmitContentsLine(line, map) ==
    LET parts == SplitWhitespace(Strip(line))
    IN  IF Len(parts) < 2 THEN {}
        ELSE LET file_path == parts[1]
                 pkg_names == Split(parts[Len(parts)], ",")
                 clean(i) == LET q == Split(pkg_names[i], "/") IN q[Len(q)]
             IN  { <<map[clean(i)], Uri("deb", <<"f","i","l","e","N","a","m","e">>),
                     Lit(file_path)>> :
                     i \in {j \in DOMAIN pkg_names : clean(j) \in DOMAIN map} }

\* the body of the loop over packages of _process_filelists_chunk
RpmEmitFilelist(item, map) ==
    IF item.pkgid \in DOMAIN map
    THEN { <<map[item.pkgid], Uri("rpm", <<"f","i","l","e","N","a","m","e">>),
             Lit(item.files[i])>> : i \in DOMAIN item.files }
    ELSE {}

\* the triples of one changelog entry hung on blank node b
RpmChangelogTriples(pkg_uri, cl_data, b) ==
    { <<pkg_uri, Uri("rpm", <<"h","a","s","C","h","a","n","g","e","l","o","g">>), BNode(b)>>,
      <<BNode(b), RdfType, Uri("rpm", <<"C","h","a","n","g","e","l","o","g">>)>> }
    \cup (IF cl_data.text # None /\ cl_data.text # <<>>
          THEN { <<BNode(b),
                   Uri("rpm", <<"c","h","a","n","g","e","l","o","g","T","e","x","t">>),
                   Lit(cl_data.text)>> }
          ELSE {})
    \cup (IF cl_data.author # None /\ cl_data.author # <<>>
          THEN { <<BNode(b),
                   Uri("rpm", <<"c","h","a","n","g","e","l","o","g","A","u","t","h","o","r">>),
                   Lit(cl_data.author)>> }
          ELSE {})
    \cup (IF cl_data.date # None /\ cl_data.date # <<>>
          THEN { <<BNode(b),
                   Uri("rpm", <<"c","h","a","n","g","e","l","o","g","T","i","m","e">>),
                   <<"typed", cl_data.date, 0>> >> }
          ELSE {})

\* the body of the loop over packages of _process_other_chunk
RpmEmitOther(item, map, b0) ==
    IF item.pkgid \in DOMAIN map
    THEN [triples |-> UNION { RpmChangelogTriples(map[item.pkgid], item.changelogs[i], b0 + i) :
                              i \in DOMAIN item.changelogs },
          bnodes |-> b0 + Len(item.changelogs)]
    ELSE [triples |-> {}, bnodes |-> b0]

-----------------------------------------------------------------------------
(* The single-threaded Debian processors: the copies of the two loops that  *)
(* write directly into self.g                                              *)

\* the body of the loop over packages of _process_packages_single_threaded
DebEmitPackageSingleThreaded(pkg_data, codename, b0) ==
    LET pkg_name == Get(pkg_data, kPackage)
        pkg_version == Get(pkg_data, kVersion)
        pkg_uri == Uri("deb", Quote(pkg_name \o <<"-">> \o pkg_version))
        prop_name(i) == RemoveDashes(ToLower(pkg_data[i][1]))
        deps == DebDependencyList(pkg_data, 1)
        dep_triples(i) ==
            { <<pkg_uri, Uri("deb", ToLower(deps[i][1])), BNode(b0 + i)>>,
              <<BNode(b0 + i), Uri("deb", <<"p","a","c","k","a","g","e","N","a","m","e">>),
                Lit(deps[i][2][1])>> }
            \cup (IF deps[i][2][2] # None /\ deps[i][2][2] # <<>>
                  THEN { <<BNode(b0 + i),
                           Uri("deb", <<"v","e","r","s","i","o","n","C","o","n","s","t","r","a","i","n","t">>),
                           Lit(deps[i][2][2])>> }
                  ELSE {})
    IN  [triples |->
            { <<pkg_uri, RdfType,
                Uri("deb", <<"D","e","b","i","a","n","P","a","c","k","a","g","e">>)>>,
              <<pkg_uri, Uri("deb", <<"i","n","S","u","i","t","e">>), Uri("deb", codename)>>,
              <<pkg_uri, Uri("deb", <<"n","a","m","e">>), Lit(pkg_name)>>,
              <<pkg_uri, Uri("deb", <<"v","e","r","s","i","o","n">>), Lit(pkg_version)>> }
            \cup { <<pkg_uri, Uri("deb", prop_name(i)), Lit(pkg_data[i][2])>> :
                     i \in {j \in DOMAIN pkg_data :
                              prop_name(j) \notin {<<"p","a","c","k","a","g","e">>,
                                                   <<"v","e","r","s","i","o","n">>}} }
            \cup UNION { dep_triples(i) : i \in DOMAIN deps },
         bnodes |-> b0 + Len(deps)]

\* the body of the loop over lines of _process_contents_single_threaded
DebEmitContentsLineSingleThreaded(line, map) ==
    LET parts == SplitWhitespace(Strip(line))
    IN  IF Len(parts) < 2 THEN {}
        ELSE LET file_path == parts[1]
                 pkg_names_str == parts[Len(parts)]
                 pkg_names == Split(pkg_names_str, ",")
                 clean_pkg_name(i) ==
                     LET pieces == Split(pkg_names[i], "/") IN pieces[Len(pieces)]
             IN  { <<map[clean_pkg_name(i)],
                     Uri("deb", <<"f","i","l","e","N","a","m","e">>), Lit(file_path)>> :
                     i \in {j \in DOMAIN pkg_names : clean_pkg_name(j) \in DOMAIN map} }

-----------------------------------------------------------------------------
(* The record normalizers: raw metadata entries to package records *)

\* d[k] = v on a dict kept as its items: a key already present keeps its place
DictSet(d, k, v) ==
    IF HasKey(d, k)
    THEN [i \in DOMAIN d |-> IF d[i][1] = k THEN <<k, v>> ELSE d[i]]
    ELSE Append(d, <<k, v>>)

\* line.split(':', 1): what precedes the first colon and what follows it
SplitFirstColon(line) ==
    LET p == CHOOSE i \in DOMAIN line :
                 line[i] = ":" /\ \A j \in 1..(i - 1) : line[j] # ":"
    IN  <<SubSeq(line, 1, p - 1), SubSeq(line, p + 1, Len(line))>>

\* {k.strip(): v.strip() for k, v in (line.split(':', 1) for line in ... if ':' in line)}
RECURSIVE DebParseLines(_, _, _)
DebParseLines(lines, i, d) ==
    IF i > Len(lines) THEN d
    ELSE IF ":" \in Range(lines[i])
         THEN LET kv == SplitFirstColon(lines[i])
              IN  DebParseLines(lines, i + 1, DictSet(d, Strip(kv[1]), Strip(kv[2])))
         ELSE DebParseLines(lines, i + 1, d)

\* pkg_data of one stanza of the Packages file, the stanza given as its lines
DebParseStanza(pkg_info) == DebParseLines(pkg_info, 1, <<>>)

\* DebianCollector._get_packages_data, "Parse Package Entries": a stanza
\* without Package or without Version is left out
DebParsePackageEntries(packages) ==
    SelectSeq([i \in DOMAIN packages |-> DebParseStanza(packages[i])],
              LAMBDA pkg_data : HasKey(pkg_data, kPackage) /\ HasKey(pkg_data, kVersion))

\* pkg.find(...) found no such child element
Absent == <<"absent">>

\* "x if pkg.find(...) is not None else ''"
TextOrEmpty(x) == IF x = Absent THEN <<>> ELSE x

\* pkg_data of one <package> element of primary.xml; its version element is
\* Absent or <<ver, rel>>
RpmPkgData(pkg) ==
    [name |-> TextOrEmpty(pkg.name),
     version |-> IF pkg.version = Absent THEN <<>> ELSE pkg.version[1],
     release |-> IF pkg.version = Absent THEN <<>> ELSE pkg.version[2],
     arch |-> TextOrEmpty(pkg.arch),
     summary |-> TextOrEmpty(pkg.summary),
     description |-> TextOrEmpty(pkg.description),
     pkgid |-> TextOrEmpty(pkg.checksum),
     format_element |-> pkg.format]

\* RpmCollector._get_primary_packages_data: every <package> becomes a record
RpmPrimaryRecords(packages) == [i \in DOMAIN packages |-> RpmPkgData(packages[i])]

-----------------------------------------------------------------------------
(* The inputs of one collect() run *)

MaxPackages == 3
MaxChunkSize == 2
MaxWorkers == 2

\* Codename, Suite and Origin of the Release file
Codename == <<"s","i","d">>
Suite == <<"u","n","s","t","a","b","l","e">>
Origin == <<"D","e","b","i","a","n">>

\* Package: a / Version: 1 / Depends: b (>= 1) | c, d / Pre-Depends: e
DebPkgA ==
    << <<kPackage, <<"a">> >>, <<kVersion, <<"1">> >>,
       <<kDepends, <<"b"," ","(",">","="," ","1",")"," ","|"," ","c",","," ","d">> >>,
       <<kPreDepends, <<"e">> >> >>

\* Package: b / Version: 1:2
DebPkgB == << <<kPackage, <<"b">> >>, <<kVersion, <<"1",":","2">> >> >>

DebPackages == {DebPkgA, DebPkgB}

\* one "Key: value" line of a stanza
Field(k, v) == k \o <<":", " ">> \o v

\* the stanzas of the Packages file that parse to DebPkgA and to DebPkgB
DebStanzaA ==
    << Field(kPackage, <<"a">>), Field(kVersion, <<"1">>),
       Field(kDepends, <<"b"," ","(",">","="," ","1",")"," ","|"," ","c",","," ","d">>),
       Field(kPreDepends, <<"e">>) >>

DebStanzaB == << Field(kPackage, <<"b">>), Field(kVersion, <<"1",":","2">>) >>

DebStanzas == {DebStanzaA, DebStanzaB}

\* "/x  s/a,z", "/y b" and a line without a package column
DebContentsLines ==
    << <<"/","x"," "," ","s","/","a",",","z">>, <<"/","y"," ","b">>, <<"/","w">> >>

RpmPkgA ==
    [name |-> <<"a">>, version |-> <<"1">>, release |-> <<"1">>, arch |-> <<"x">>,
     summary |-> <<"s">>, description |-> <<>>, pkgid |-> <<"p">>,
     format_element |->
        [present |-> TRUE,
         requires |-> << [name |-> <<"b">>, ver |-> <<"1">>],
                         [name |-> <<"c">>, ver |-> None] >>]]

RpmPkgB ==
    [name |-> <<"b">>, version |-> <<"2">>, release |-> <<"1">>, arch |-> <<"x">>,
     summary |-> None, description |-> <<"d">>, pkgid |-> <<"q">>,
     format_element |-> [present |-> FALSE, requires |-> <<>>]]

RpmPackages == {RpmPkgA, RpmPkgB}

\* the <package> elements of primary.xml that give RpmPkgA and RpmPkgB
RpmEntryA ==
    [name |-> <<"a">>, version |-> << <<"1">>, <<"1">> >>, arch |-> <<"x">>,
     summary |-> <<"s">>, description |-> Absent, checksum |-> <<"p">>,
     format |-> RpmPkgA.format_element]

RpmEntryB ==
    [name |-> <<"b">>, version |-> << <<"2">>, <<"1">> >>, arch |-> <<"x">>,
     summary |-> None, description |-> <<"d">>, checksum |-> <<"q">>,
     format |-> RpmPkgB.format_element]

RpmEntries == {RpmEntryA, RpmEntryB}

\* filelists entries of package p, of package q and of a package outside
\* the primary metadata
RpmFilelists ==
    << [pkgid |-> <<"p">>, files |-> << <<"/","x">>, <<"/","y">> >>],
       [pkgid |-> <<"z">>, files |-> << <<"/","w">> >>],
       [pkgid |-> <<"q">>, files |-> << <<"/","x">> >>] >>

RpmOther ==
    << [pkgid |-> <<"p">>,
        changelogs |-> << [text |-> <<"t">>, author |-> <<"u">>, date |-> <<"1">>],
                          [text |-> None, author |-> None, date |-> None] >>],
       [pkgid |-> <<"q">>,
        changelogs |-> << [text |-> <<"t">>, author |-> None, date |-> <<"2">>] >>] >>

\* every list of at most n elements of S
ListsUpTo(S, n) == UNION {[1..k -> S] : k \in 0..n}

\* the manifests a run may meet: none, one item, all the sample items
Prefixes(s) == {<<>>, SubSeq(s, 1, 1), s}

-----------------------------------------------------------------------------
(* The chunked collection coordinator: BaseCollector.collect_parallel *)

\* the items handed to collect_parallel (or to the single-threaded
\* processor) at stage st
Items(st) ==
    CASE st = "packages" -> packages_data
      [] st = "manifest" -> manifest
      [] st = "other" -> other_data

\* process_chunk_func's loop body at stage st: what one item adds to a graph
\* whose process has created b0 blank nodes.  The chunk wrappers take
\* codename and pkg_map from the first item of the chunk; every item of a
\* call carries the same ones.
EmitItem(st, item, b0) ==
    CASE eco = "deb" /\ st = "packages" -> DebEmitPackage(item, Codename, b0)
      [] eco = "deb" /\ st = "manifest" ->
            [triples |-> DebEmitContentsLine(item, pkg_map), bnodes |-> b0]
      [] eco = "rpm" /\ st = "packages" -> RpmEmitPackage(item, b0)
      [] eco = "rpm" /\ st = "manifest" ->
            [triples |-> RpmEmitFilelist(item, pkg_map), bnodes |-> b0]
      [] eco = "rpm" /\ st = "other" -> RpmEmitOther(item, pkg_map, b0)

\* the loop over the items of a list, adding to acc = [triples, bnodes]
RECURSIVE EmitItems(_, _, _, _)
EmitItems(st, items, i, acc) ==
    IF i > Len(items) THEN acc
    ELSE LET e == EmitItem(st, items[i], acc.bnodes)
         IN  EmitItems(st, items, i + 1,
                       [triples |-> acc.triples \cup e.triples, bnodes |-> e.bnodes])

\* chunk_graph = Graph(); ...; chunk_graph.serialize(temp_file, 'turtle'):
\* the document a worker writes for its chunk; its blank-node labels are
\* the document's own
ChunkDocument(st, chunk) == EmitItems(st, chunk, 1, [triples |-> {}, bnodes |-> 0])

ImportedKeepingLabel(t, b0) == t

\* a term of a parsed document: its blank nodes get identifiers new to the
\* parsing process
Imported(t, b0) == IF IsBNode(t) THEN BNode(b0 + t[3]) ELSE t

ParsedTriplesSharedScope(doc, b0) == doc.triples

\* the triples self.g.parse(temp_file, format='turtle') reads from a document
ParsedTriples(doc, b0) ==
    { <<Imported(t[1], b0), t[2], Imported(t[3], b0)>> : t \in doc.triples }

MergeReplacing(graph, parsed) == parsed

\* self.g.parse(...) adds what it reads to the graph
MergeInto(graph, parsed) == graph \cup parsed

\* ceil(N / size)
CeilDiv(n, size) == (n + size - 1) \div size

Min(a, b) == IF a < b THEN a ELSE b

ChunksShortSlice(items, size) ==
    LET starts == {i \in 0..(Len(items) - 1) : i % size = 0}
    IN  [k \in 1..Cardinality(starts) |->
            LET i == KthOf(starts, k)
            IN  SubSeq(items, i + 1, Min(i + size, Len(items)) - 1)]

\* chunks = [packages[i:i+chunk_size] for i in range(0, len(packages), chunk_size)]
Chunks(items, size) ==
    LET starts == {i \in 0..(Len(items) - 1) : i % size = 0}
    IN  [k \in 1..Cardinality(starts) |->
            LET i == KthOf(starts, k)
            IN  SubSeq(items, i + 1, Min(i + size, Len(items)))]

\* no request has been made yet
NoResponse == [status |-> "none", lines |-> <<>>]

\* no run of the pipeline has finished before this one
NoRun == [done |-> FALSE, g |-> {}, answers |-> <<NoResponse, NoResponse>>]

\* collect() is entered: nothing fetched, the combined graph as constructed
CollectStart ==
    /\ release_resp = NoResponse /\ manifest_resp = NoResponse
    /\ g = {} /\ bnode_ctr = 0 /\ pkg_map = <<>>
    /\ pc = IF eco = "deb" THEN "release" ELSE "fetch_packages"

\* the parser's variables while collect() runs
ParserIdle == dep_string = <<>> /\ dependencies = <<>> /\ dep_pc = "idle"

\* the step names of the model: a step of collect() and one nested in it
StepNames == {"Download Package Metadata", "Download Packages.gz"}

\* step_start = None
NoTime == 0

\* no log() call was made
NoLog == [kind |-> "none", elapsed |-> 0, open |-> 0, since |-> 0]

\* the profiler as constructed, profiling disabled, never used
ProfilerIdle ==
    /\ pf_enabled = FALSE /\ pf_current = "None" /\ pf_start = NoTime
    /\ pf_timings = [n \in StepNames |-> <<>>] /\ pf_stack = <<>> /\ pf_clock = 1
    /\ pf_raising = FALSE /\ pf_log = NoLog /\ pf_finished = [n \in StepNames |-> 0]

\* merge_turtle_files is not called
MergerIdle ==
    mt_files = <<>> /\ mt_exists = <<>> /\ mt_out = <<>> /\ mt_i = 0 /\ mt_pc = "idle"

Init ==
    /\ ParserIdle /\ first_run = NoRun /\ MergerIdle /\ ProfilerIdle
    /\ eco \in {"deb", "rpm"}
    /\ parallel \in BOOLEAN
    /\ chunk_size \in 1..MaxChunkSize
    /\ workers \in 1..MaxWorkers
    /\ primary \in ListsUpTo(IF eco = "deb" THEN DebStanzas ELSE RpmEntries, MaxPackages)
    /\ packages_data = <<>>
    /\ manifest \in Prefixes(IF eco = "deb" THEN DebContentsLines ELSE RpmFilelists)
    /\ other_data \in (IF eco = "deb" THEN {<<>>} ELSE Prefixes(RpmOther))
    /\ CollectStart
    /\ stage = "none" /\ entry_g = {} /\ chunks = <<>> /\ futures = <<>> /\ fs = <<>>
    /\ temp_files = <<>> /\ next_future = 1 /\ merge_pos = 1
    /\ processed_count = 0 /\ outcome = "running"
    /\ runs = <<>> /\ merged = <<>>

AfterStageLinkingFirst(st) ==
    CASE st = "packages" -> "fetch_manifest"
      [] st = "manifest" -> "build_map"
      [] st = "other" -> "return"

\* the position in collect() after the stage st
AfterStage(st) ==
    CASE st = "packages" -> "build_map"
      [] st = "manifest" -> IF eco = "deb" THEN "return" ELSE "fetch_other"
      [] st = "other" -> "return"

\* "if not self.parallel or len(packages) < self.chunk_size": the test of
\* collect_parallel, and of DebianCollector before it calls collect_parallel
SingleThreaded(st) == ~parallel \/ Len(Items(st)) < chunk_size

\* collect() is about to process stage st
AtStage(st) == pc = st /\ st \in {"packages", "manifest", "other"}

\* what DebianCollector._add_distribution_metadata adds
DistributionTriples ==
    { <<Uri("deb", Origin), RdfType,
        Uri("deb", <<"D","i","s","t","r","i","b","u","t","i","o","n">>)>>,
      <<Uri("deb", Codename), RdfType, Uri("deb", <<"S","u","i","t","e">>)>>,
      <<Uri("deb", Codename),
        Uri("deb", <<"p","a","r","t","O","f","D","i","s","t","r","i","b","u","t","i","o","n">>),
        Uri("deb", Origin)>> }
    \cup (IF Suite # Codename
          THEN { <<Uri("deb", Suite), Uri("owl", <<"s","a","m","e","A","s">>),
                   Uri("deb", Codename)>> }
          ELSE {})

\* self._add_distribution_metadata(codename, suite, origin)
AddDistributionMetadata ==
    /\ pc = "start" /\ eco = "deb"
    /\ g' = g \cup DistributionTriples
    /\ pc' = "fetch_packages"
    /\ UNCHANGED <<dvars, ovars, config, responses, bnode_ctr, pkg_map, stage, entry_g, chunks, futures, fs,
                   temp_files, next_future, merge_pos, processed_count, outcome, hvars>>

\* the loop body of the single-threaded Debian processor of stage st
DebProcessItem(st, item, b0) ==
    CASE st = "packages" -> DebEmitPackageSingleThreaded(item, Codename, b0)
      [] st = "manifest" ->
            [triples |-> DebEmitContentsLineSingleThreaded(item, pkg_map), bnodes |-> b0]

\* "for pkg_data in packages_data" / "for line in lines", adding to
\* acc = [triples, bnodes]
RECURSIVE DebProcessItems(_, _, _, _)
DebProcessItems(st, items, i, acc) ==
    IF i > Len(items) THEN acc
    ELSE LET e == DebProcessItem(st, items[i], acc.bnodes)
         IN  DebProcessItems(st, items, i + 1,
                             [triples |-> acc.triples \cup e.triples, bnodes |-> e.bnodes])

\* DebianCollector._process_packages_single_threaded and
\* _process_contents_single_threaded: the caller's own branch, writing
\* directly into self.g
DebProcessSingleThreaded ==
    /\ eco = "deb" /\ AtStage(pc) /\ SingleThreaded(pc)
    /\ LET e == DebProcessItems(pc, Items(pc), 1, [triples |-> g, bnodes |-> bnode_ctr])
       IN  /\ g' = e.triples
           /\ bnode_ctr' = e.bnodes
    /\ processed_count' = IF pc = "packages" THEN Len(packages_data) ELSE processed_count
    /\ pc' = AfterStage(pc)
    /\ UNCHANGED <<dvars, ovars, config, responses, pkg_map, stage, entry_g, chunks, futures, fs,
                   temp_files, next_future, merge_pos, outcome, hvars>>

\* collect() reaches a call of collect_parallel: RpmCollector calls it at
\* every stage, DebianCollector only in the else branch of its own test
CallsCollectParallel == AtStage(pc) /\ (eco = "rpm" \/ ~SingleThreaded(pc))

\* collect_parallel, first branch: log and "return len(packages)"
CollectParallelSingleThreaded ==
    /\ CallsCollectParallel /\ SingleThreaded(pc)
    /\ processed_count' = IF pc = "packages" THEN Len(Items(pc)) ELSE processed_count
    /\ pc' = AfterStage(pc)
    /\ UNCHANGED <<dvars, ovars, config, responses, g, bnode_ctr, pkg_map, stage, entry_g, chunks, futures,
                   fs, temp_files, next_future, merge_pos, outcome, hvars>>

\* collect_parallel, parallel path: the chunks are cut and every chunk is
\* submitted to the pool
CollectParallelSubmit ==
    /\ CallsCollectParallel /\ ~SingleThreaded(pc)
    /\ stage' = pc
    /\ entry_g' = g
    /\ chunks' = Chunks(Items(pc), chunk_size)
    /\ futures' = [i \in DOMAIN chunks' |-> "pending"]
    /\ fs' = [i \in DOMAIN chunks' |-> [exists |-> FALSE, doc |-> [triples |-> {}, bnodes |-> 0]]]
    /\ runs' = [i \in DOMAIN chunks' |-> 0]
    /\ temp_files' = <<>> /\ next_future' = 1 /\ merge_pos' = 1 /\ merged' = <<>>
    /\ pc' = "await"
    /\ UNCHANGED <<dvars, ovars, config, responses, g, bnode_ctr, pkg_map, processed_count, outcome>>

PoolUnbounded == TRUE

\* ProcessPoolExecutor(max_workers=self.workers): a chunk starts only on an
\* idle worker process
PoolHasIdleWorker == Cardinality({j \in DOMAIN futures : futures[j] = "running"}) < workers

\* a worker process takes chunk i off the queue
WorkerStart(i) ==
    /\ pc \in {"await", "shutdown"}
    /\ futures[i] = "pending"
    /\ PoolHasIdleWorker
    /\ futures' = [futures EXCEPT ![i] = "running"]
    /\ runs' = [runs EXCEPT ![i] = @ + 1]
    /\ UNCHANGED <<dvars, ovars, config, responses, g, bnode_ctr, pkg_map, pc, stage, entry_g, chunks, fs,
                   temp_files, next_future, merge_pos, processed_count, outcome, merged>>

WorkerWritesCombinedGraph(i, doc) ==
    /\ fs' = [fs EXCEPT ![i] = [exists |-> TRUE, doc |-> doc]]
    /\ g' = g \cup doc.triples

\* the worker builds its own chunk_graph and serializes it to its own temp
\* file; it holds no reference to self.g
WorkerWritesChunkGraph(i, doc) ==
    /\ fs' = [fs EXCEPT ![i] = [exists |-> TRUE, doc |-> doc]]
    /\ g' = g

\* process_chunk_func(chunk, i) runs to its return in the worker
WorkerFinish(i) ==
    /\ pc \in {"await", "shutdown"}
    /\ futures[i] = "running"
    /\ WorkerWritesChunkGraph(i, ChunkDocument(stage, chunks[i]))
    /\ futures' = [futures EXCEPT ![i] = "done"]
    /\ UNCHANGED <<dvars, ovars, config, responses, bnode_ctr, pkg_map, pc, stage, entry_g, chunks,
                   temp_files, next_future, merge_pos, processed_count, outcome, hvars>>

\* process_chunk_func(chunk, i) raises in the worker
WorkerFail(i) ==
    /\ pc \in {"await", "shutdown"}
    /\ futures[i] = "running"
    /\ futures' = [futures EXCEPT ![i] = "failed"]
    /\ UNCHANGED <<dvars, ovars, config, responses, g, bnode_ctr, pkg_map, pc, stage, entry_g, chunks, fs,
                   temp_files, next_future, merge_pos, processed_count, outcome, hvars>>

FutureReadyNoWait(i) == TRUE

\* future.result() blocks until the future has finished
FutureReady(i) == futures[i] \in {"done", "failed"}

\* what future.result() hands back: the temp file's name (the chunk index
\* stands for it), nothing for a future that has none
FutureResult(i) == IF futures[i] = "done" THEN i ELSE 0

ExceptionSwallowed(i) == FALSE

\* future.result() re-raises the exception of a failed worker
ResultIsException(i) == futures[i] = "failed"

\* "temp_file = future.result(); if temp_file: temp_files.append(temp_file)"
AwaitResult ==
    /\ pc = "await" /\ next_future <= Len(futures)
    /\ FutureReady(next_future) /\ ~ResultIsException(next_future)
    /\ temp_files' = IF FutureResult(next_future) # 0
                     THEN Append(temp_files, FutureResult(next_future))
                     ELSE temp_files
    /\ next_future' = next_future + 1
    /\ UNCHANGED <<dvars, ovars, config, responses, g, bnode_ctr, pkg_map, pc, stage, entry_g, chunks, futures,
                   fs, merge_pos, processed_count, outcome, hvars>>

\* future.result() re-raises the worker's exception: the with block is left
\* through ProcessPoolExecutor.__exit__
ResultRaises ==
    /\ pc = "await" /\ next_future <= Len(futures)
    /\ FutureReady(next_future) /\ ResultIsException(next_future)
    /\ pc' = "shutdown"
    /\ UNCHANGED <<dvars, ovars, config, responses, g, bnode_ctr, pkg_map, stage, entry_g, chunks, futures, fs,
                   temp_files, next_future, merge_pos, processed_count, outcome, hvars>>

PoolShutdownWithoutWaiting == TRUE

\* ProcessPoolExecutor.__exit__ = shutdown(wait=True): returns once every
\* submitted chunk has finished
PoolDrained == \A i \in DOMAIN futures : futures[i] \in {"done", "failed"}

\* the with block ends after the last result was taken
ExecutorExit ==
    /\ pc = "await" /\ next_future > Len(futures)
    /\ PoolDrained
    /\ pc' = "merge"
    /\ UNCHANGED <<dvars, ovars, config, responses, g, bnode_ctr, pkg_map, stage, entry_g, chunks, futures, fs,
                   temp_files, next_future, merge_pos, processed_count, outcome, hvars>>

\* the exception leaves collect_parallel and collect(): nothing catches it
ExecutorExitRaising ==
    /\ pc = "shutdown"
    /\ PoolDrained
    /\ pc' = "done"
    /\ outcome' = "error"
    /\ UNCHANGED <<dvars, ovars, config, responses, g, bnode_ctr, pkg_map, stage, entry_g, chunks, futures, fs,
                   temp_files, next_future, merge_pos, processed_count, hvars>>

MergeOrderReversed(k) == temp_files[Len(temp_files) + 1 - k]

\* "for temp_file in temp_files": the file of the k-th round
MergeOrder(k) == temp_files[k]

\* one round of "for temp_file in temp_files: self.g.parse(...); os.unlink(...)"
MergeTempFile ==
    /\ pc = "merge" /\ merge_pos <= Len(temp_files)
    /\ LET f == MergeOrder(merge_pos)
       IN  /\ g' = MergeInto(g, ParsedTriples(fs[f].doc, bnode_ctr))
           /\ bnode_ctr' = bnode_ctr + fs[f].doc.bnodes
           /\ fs' = [fs EXCEPT ![f].exists = FALSE]
           /\ merged' = Append(merged, f)
    /\ merge_pos' = merge_pos + 1
    /\ UNCHANGED <<dvars, ovars, config, responses, pkg_map, pc, stage, entry_g, chunks, futures,
                   temp_files, next_future, processed_count, outcome, runs>>

\* "return len(packages)" after the merge
CollectParallelReturn ==
    /\ pc = "merge" /\ merge_pos > Len(temp_files)
    /\ processed_count' = IF stage = "packages" THEN Len(Items(stage)) ELSE processed_count
    /\ pc' = AfterStage(stage)
    /\ UNCHANGED <<dvars, ovars, config, responses, g, bnode_ctr, pkg_map, stage, entry_g, chunks, futures, fs,
                   temp_files, next_future, merge_pos, outcome, hvars>>

\* pkg_map = self._build_package_map(packages_data)
BuildPackageMap ==
    /\ pc = "build_map"
    /\ pkg_map' = IF eco = "deb" THEN DebBuildPackageMap(packages_data)
                  ELSE RpmBuildPackageMap(packages_data)
    /\ pc' = "fetch_manifest"
    /\ UNCHANGED <<dvars, ovars, config, responses, g, bnode_ctr, stage, entry_g, chunks, futures, fs,
                   temp_files, next_future, merge_pos, processed_count, outcome, hvars>>

\* "return processed_count"
CollectReturn ==
    /\ pc = "return"
    /\ pc' = "done"
    /\ outcome' = "returned"
    /\ UNCHANGED <<dvars, ovars, config, responses, g, bnode_ctr, pkg_map, stage, entry_g, chunks, futures, fs,
                   temp_files, next_future, merge_pos, processed_count, hvars>>

-----------------------------------------------------------------------------
(* The requests of collect(): the release descriptor, the primary listing  *)
(* and the manifest.  A request ends "ok" with the document's lines, or    *)
(* with a transport failure the HTTP client raises: HTTPError (from        *)
(* raise_for_status), ConnectionError or Timeout.                          *)

TransportFailures == {"http_error", "connection_error", "timeout"}

kCodename == <<"C","o","d","e","n","a","m","e">>
kSuite == <<"S","u","i","t","e">>
kOrigin == <<"O","r","i","g","i","n">>

\* line.startswith(prefix)
StartsWith(line, prefix) ==
    Len(line) >= Len(prefix) /\ SubSeq(line, 1, Len(prefix)) = prefix

\* the loop of _get_release_info over response.text.splitlines()
RECURSIVE ReleaseInfoFrom(_, _, _)
ReleaseInfoFrom(lines, i, release_info) ==
    IF i > Len(lines) THEN release_info
    ELSE LET line == lines[i]
             value == Strip(SplitFirstColon(line)[2])
         IN  ReleaseInfoFrom(lines, i + 1,
                 IF StartsWith(line, kCodename \o <<":">>)
                 THEN DictSet(release_info, kCodename, value)
                 ELSE IF StartsWith(line, kSuite \o <<":">>)
                 THEN DictSet(release_info, kSuite, value)
                 ELSE IF StartsWith(line, kOrigin \o <<":">>)
                 THEN DictSet(release_info, kOrigin, value)
                 ELSE release_info)

\* what _get_release_info returns for a Release file that was fetched: the
\* dict when it holds Codename, Suite and Origin, None otherwise
GetReleaseInfo(lines) ==
    LET release_info == ReleaseInfoFrom(lines, 1, <<>>)
    IN  IF /\ HasKey(release_info, kCodename)
           /\ HasKey(release_info, kSuite)
           /\ HasKey(release_info, kOrigin)
        THEN release_info
        ELSE None

\* the Release file of the distribution
ReleaseLines ==
    << Field(kOrigin, Origin), Field(<<"L","a","b","e","l">>, Origin),
       Field(kSuite, Suite), Field(kCodename, Codename) >>

\* the Release file without its line of field k
ReleaseLinesWithout(k) == SelectSeq(ReleaseLines, LAMBDA line : ~StartsWith(line, k \o <<":">>))

\* the answers to the request for the Release file: a transport failure, the
\* file, or the file lacking one of the fields collect() needs
DebReleaseResponses ==
    {[status |-> f, lines |-> <<>>] : f \in TransportFailures}
        \cup {[status |-> "ok", lines |-> l] :
                l \in {ReleaseLines}
                         \cup {ReleaseLinesWithout(k) : k \in {kCodename, kSuite, kOrigin}}}

kPrimary == <<"p","r","i","m","a","r","y">>
kFilelists == <<"f","i","l","e","l","i","s","t","s">>
kOther == <<"o","t","h","e","r">>

\* repomd.xml, as the types of its <data> elements that carry a location
RepomdTypes == <<kPrimary, kFilelists, kOther>>

\* the answers to _get_metadata_url(metadata_type) followed by
\* _download_and_decompress: a transport failure of either request, or
\* repomd.xml with or (when the repository has no such listing) without the
\* location of that type
RepomdResponses(metadata_type, listing) ==
    {[status |-> f, lines |-> <<>>] : f \in TransportFailures}
        \cup {[status |-> "ok", lines |-> RepomdTypes]}
        \cup (IF listing = <<>>
              THEN {[status |-> "ok",
                     lines |-> SelectSeq(RepomdTypes, LAMBDA t : t # metadata_type)]}
              ELSE {})

\* _get_metadata_url found "repo:data[@type=...]/repo:location"
HasLocation(resp, metadata_type) == metadata_type \in Range(resp.lines)

\* release_info = self._get_release_info(); "if not release_info: sys.exit(1)".
\* A RequestException is caught inside _get_release_info, which exits too.
DebGetReleaseInfo ==
    /\ pc = "release" /\ eco = "deb"
    /\ \E resp \in DebReleaseResponses :
          /\ release_resp' = resp
          /\ IF resp.status = "ok" /\ GetReleaseInfo(resp.lines) # None
             THEN pc' = "start" /\ outcome' = outcome
             ELSE pc' = "done" /\ outcome' = "error"
    /\ UNCHANGED <<dvars, ovars, config, manifest_resp, g, bnode_ctr, pkg_map, stage, entry_g,
                   chunks, futures, fs, temp_files, next_future, merge_pos,
                   processed_count, hvars>>

\* packages_data = self._get_packages_data(): raise_for_status() is not
\* caught, the stanzas are parsed and filtered
DebGetPackagesData ==
    /\ pc = "fetch_packages" /\ eco = "deb"
    /\ \E status \in {"ok"} \cup TransportFailures :
          IF status = "ok"
          THEN /\ packages_data' = DebParsePackageEntries(primary)
               /\ pc' = "packages" /\ outcome' = outcome
          ELSE /\ packages_data' = packages_data
               /\ pc' = "done" /\ outcome' = "error"
    /\ UNCHANGED <<dvars, ovars, eco, parallel, chunk_size, workers, primary, manifest, other_data,
                   responses, g, bnode_ctr, pkg_map, stage, entry_g, chunks, futures, fs,
                   temp_files, next_future, merge_pos, processed_count, hvars>>

\* packages_data = self._get_primary_packages_data(): a failed request
\* raises, "if not primary_url: return []"
RpmGetPrimaryPackagesData ==
    /\ pc = "fetch_packages" /\ eco = "rpm"
    /\ \E resp \in RepomdResponses(kPrimary, primary) :
          /\ release_resp' = resp
          /\ IF resp.status # "ok"
             THEN /\ packages_data' = packages_data
                  /\ pc' = "done" /\ outcome' = "error"
             ELSE /\ packages_data' = IF HasLocation(resp, kPrimary)
                                      THEN RpmPrimaryRecords(primary) ELSE <<>>
                  /\ pc' = "packages" /\ outcome' = outcome
    /\ UNCHANGED <<dvars, ovars, eco, parallel, chunk_size, workers, primary, manifest, other_data,
                   manifest_resp, g, bnode_ctr, pkg_map, stage, entry_g, chunks, futures, fs,
                   temp_files, next_future, merge_pos, processed_count, hvars>>

\* _process_contents_parallel, "Download Contents File": only HTTPError is
\* caught (a warning, and collect() goes on to its return)
DebFetchContents ==
    /\ pc = "fetch_manifest" /\ eco = "deb"
    /\ \E status \in {"ok"} \cup TransportFailures :
          /\ manifest_resp' = [status |-> status, lines |-> <<>>]
          /\ CASE status = "ok" -> pc' = "manifest" /\ outcome' = outcome
               [] status = "http_error" -> pc' = "return" /\ outcome' = outcome
               [] OTHER -> pc' = "done" /\ outcome' = "error"
    /\ UNCHANGED <<dvars, ovars, config, release_resp, g, bnode_ctr, pkg_map, stage, entry_g,
                   chunks, futures, fs, temp_files, next_future, merge_pos,
                   processed_count, hvars>>

\* _process_filelists_parallel up to its collect_parallel call: a failed
\* request raises, "if not filelists_url: return"
RpmFetchFilelists ==
    /\ pc = "fetch_manifest" /\ eco = "rpm"
    /\ \E resp \in RepomdResponses(kFilelists, manifest) :
          /\ manifest_resp' = resp
          /\ CASE resp.status # "ok" -> pc' = "done" /\ outcome' = "error"
               [] resp.status = "ok" /\ ~HasLocation(resp, kFilelists) ->
                     pc' = "fetch_other" /\ outcome' = outcome
               [] OTHER -> pc' = "manifest" /\ outcome' = outcome
    /\ UNCHANGED <<dvars, ovars, config, release_resp, g, bnode_ctr, pkg_map, stage, entry_g,
                   chunks, futures, fs, temp_files, next_future, merge_pos,
                   processed_count, hvars>>

\* _process_other_parallel up to its collect_parallel call
RpmFetchOther ==
    /\ pc = "fetch_other" /\ eco = "rpm"
    /\ \E resp \in RepomdResponses(kOther, other_data) :
          CASE resp.status # "ok" -> pc' = "done" /\ outcome' = "error"
            [] resp.status = "ok" /\ ~HasLocation(resp, kOther) ->
                  pc' = "return" /\ outcome' = outcome
            [] OTHER -> pc' = "other" /\ outcome' = outcome
    /\ UNCHANGED <<dvars, ovars, config, responses, g, bnode_ctr, pkg_map, stage, entry_g,
                   chunks, futures, fs, temp_files, next_future, merge_pos,
                   processed_count, hvars>>

Next ==
    \/ DebGetReleaseInfo
    \/ AddDistributionMetadata
    \/ DebGetPackagesData
    \/ RpmGetPrimaryPackagesData
    \/ DebFetchContents
    \/ RpmFetchFilelists
    \/ RpmFetchOther
    \/ DebProcessSingleThreaded
    \/ CollectParallelSingleThreaded
    \/ CollectParallelSubmit
    \/ \E i \in DOMAIN futures : WorkerStart(i)
    \/ \E i \in DOMAIN futures : WorkerFinish(i)
    \/ \E i \in DOMAIN futures : WorkerFail(i)
    \/ AwaitResult
    \/ ResultRaises
    \/ ExecutorExit
    \/ ExecutorExitRaising
    \/ MergeTempFile
    \/ CollectParallelReturn
    \/ BuildPackageMap
    \/ CollectReturn

Spec == Init /\ [][Next]_vars

-----------------------------------------------------------------------------
(* Graphs up to the renaming of blank nodes.  Every blank node of these    *)
(* graphs has only URIs and literals for neighbours, so two graphs are     *)
(* equal up to renaming exactly when they hold the same triples without    *)
(* blank nodes and, for every neighbourhood, as many blank nodes with it.  *)

BNodesOf(graph) ==
    {t[1] : t \in {u \in graph : IsBNode(u[1])}}
        \cup {t[3] : t \in {u \in graph : IsBNode(u[3])}}

GroundTriples(graph) == {t \in graph : ~IsBNode(t[1]) /\ ~IsBNode(t[3])}

\* the neighbourhood of blank node b: who points to it, what it points to
Signature(graph, b) ==
    <<{<<t[1], t[2]>> : t \in {u \in graph : u[3] = b}},
      {<<t[2], t[3]>> : t \in {u \in graph : u[1] = b}}>>

Canon(graph) ==
    LET sigs == {Signature(graph, b) : b \in BNodesOf(graph)}
    IN  [ground |-> GroundTriples(graph),
         blank |-> [sg \in sigs |->
                      Cardinality({b \in BNodesOf(graph) : Signature(graph, b) = sg})]]

SameUpToBNodes(g1, g2) == Canon(g1) = Canon(g2)

\* the largest blank-node label of a graph, 0 when it has none
MaxLabel(graph) ==
    IF BNodesOf(graph) = {} THEN 0
    ELSE LET ls == {b[3] : b \in BNodesOf(graph)}
         IN  CHOOSE m \in ls : \A l \in ls : l <= m

\* the number of blank nodes the items before the k-th of stage st yield
RECURSIVE BNodesBefore(_, _)
BNodesBefore(st, k) ==
    IF k = 1 THEN 0
    ELSE BNodesBefore(st, k - 1) + EmitItem(st, Items(st)[k - 1], 0).bnodes

\* base, united with the graph of every item of stage st processed alone,
\* each with blank nodes of its own
SerialUnionOnto(base, st) ==
    base \cup
    UNION { { <<Imported(t[1], MaxLabel(base) + BNodesBefore(st, k)), t[2],
                Imported(t[3], MaxLabel(base) + BNodesBefore(st, k))>> :
                t \in EmitItem(st, Items(st)[k], 0).triples } :
            k \in DOMAIN Items(st) }

\* the combined graph when the package stage begins
GraphBeforePackages == IF eco = "deb" THEN DistributionTriples ELSE {}

\* C1 (as claimed): at every stage whose items are handed over with parallel
\* disabled or fewer items than chunk_size, the items are processed inline
\* into the combined graph: after the package stage the combined graph is
\* the graph before it plus the triples of every package, as the parallel
\* path leaves it.
C1_FastPathProcessesInline ==
    (pc = "build_map" /\ SingleThreaded("packages")) =>
        SameUpToBNodes(g, SerialUnionOnto(GraphBeforePackages, "packages"))

\* C2: for a fixed list of Debian records, whatever the chunk size and
\* whether the run is parallel or not, the combined graph after package
\* emission is, up to blank-node renaming, the union of the graphs of the
\* records processed one by one.
C2_DebianChunkSizeIndependent ==
    (eco = "deb" /\ pc = "build_map") =>
        SameUpToBNodes(g, SerialUnionOnto(DistributionTriples, "packages"))

\* Debian packages went through three chunks, blank nodes included
C2_Witness ==
    /\ eco = "deb" /\ pc = "build_map" /\ stage = "packages"
    /\ Len(merged) = 3 /\ bnode_ctr >= 4

RECURSIVE Flatten(_)
Flatten(ss) == IF ss = <<>> THEN <<>> ELSE Head(ss) \o Flatten(Tail(ss))

\* the parallel path of collect_parallel was taken at the current stage
InParallelCall == pc \in {"await", "shutdown", "merge"}

\* C3: on the parallel path the input is cut into exactly ceil(N/chunk_size)
\* chunks, contiguous and in input order (their concatenation is the
\* input), every chunk non-empty and of chunk_size items except possibly
\* the last.
C3_ChunksPartitionInput ==
    InParallelCall =>
        /\ Len(chunks) = CeilDiv(Len(Items(stage)), chunk_size)
        /\ Flatten(chunks) = Items(stage)
        /\ \A k \in DOMAIN chunks :
              /\ Len(chunks[k]) >= 1
              /\ k < Len(chunks) => Len(chunks[k]) = chunk_size
              /\ Len(chunks[k]) <= chunk_size
              /\ chunks[k] = SubSeq(Items(stage), (k - 1) * chunk_size + 1,
                                    (k - 1) * chunk_size + Len(chunks[k]))

\* three items cut with chunk_size 2: a full chunk and a shorter last one
C3_Witness ==
    /\ InParallelCall /\ chunk_size = 2
    /\ Len(chunks) = 2 /\ Len(chunks[1]) = 2 /\ Len(chunks[2]) = 1

\* C4: no partial graph is merged into the combined graph before every
\* worker of the call has completed, and the partial graphs are merged in
\* strictly ascending chunk index.
C4_MergeAfterBarrierInChunkOrder ==
    InParallelCall =>
        /\ pc \in {"await", "shutdown"} => merged = <<>> /\ g = entry_g
        /\ merged # <<>> => \A i \in DOMAIN futures : futures[i] \in {"done", "failed"}
        /\ \A a, b \in DOMAIN merged : a < b => merged[a] < merged[b]
        /\ (pc = "merge" /\ merge_pos > Len(temp_files)) =>
              merged = [k \in DOMAIN chunks |-> k]

\* three chunks were merged after a later chunk finished before an earlier one
C4_Witness ==
    /\ pc = "merge" /\ merged = <<1, 2, 3>>

\* C5: for a fixed input and chunk size, the combined graph collect_parallel
\* leaves is the same, up to blank-node renaming, for every interleaving
\* and completion order of the workers: the graph at entry plus the
\* triples of every item.
C5_ResultIndependentOfScheduling ==
    (pc = "merge" /\ merge_pos > Len(temp_files)) =>
        SameUpToBNodes(g, SerialUnionOnto(entry_g, stage))

\* a call with several chunks, carrying blank nodes, ran to its last merge
C5_Witness ==
    /\ pc = "merge" /\ merge_pos > Len(temp_files)
    /\ Len(chunks) >= 2 /\ workers >= 2 /\ BNodesOf(g) # {}

\* C6: once a chunk worker has failed, collect() never returns a count, the
\* failed chunk is not started again, none of the call's partial graphs is
\* merged (the combined graph is as at the entry of collect_parallel), and
\* the run ends with an error.
C6_WorkerFailureAborts ==
    (InParallelCall \/ pc = "done") =>
        \A i \in DOMAIN futures : futures[i] = "failed" =>
            /\ outcome # "returned"
            /\ pc \in {"await", "shutdown", "done"}
            /\ pc = "done" => outcome = "error"
            /\ runs[i] = 1
            /\ merged = <<>>
            /\ g = entry_g

\* a worker failed, its siblings produced files, and collect() ended in error
C6_Witness ==
    /\ pc = "done" /\ outcome = "error"
    /\ \E i, j \in DOMAIN futures : futures[i] = "failed" /\ futures[j] = "done"
    /\ g # {}

\* C7: during one collect() the combined graph only grows: every step
\* leaves the previous triple set a subset of the new one.
C7_CombinedGraphMonotonic == [][g \subseteq g']_vars

\* the combined graph grew by a merge on top of earlier triples
C7_Witness ==
    /\ Len(merged) >= 2 /\ entry_g # {} /\ g # entry_g

\* C8: on the parallel path the combined graph changes only in steps of the
\* coordinator (steps in which no worker moves); the hand-off document of
\* chunk i changes only in the step in which the worker of chunk i finishes,
\* holds only what that chunk yields, and never changes afterwards.
C8_WorkersWriteOnlyOwnPartialGraph ==
    [][ (pc \in {"await", "shutdown", "merge"}) =>
          /\ g' # g => futures' = futures
          /\ \A i \in DOMAIN fs :
                /\ fs'[i].doc # fs[i].doc =>
                      /\ futures[i] = "running" /\ futures'[i] = "done"
                      /\ \A j \in DOMAIN fs : j # i => fs'[j] = fs[j]
                      /\ fs'[i].doc = ChunkDocument(stage, chunks[i])
                /\ futures[i] = "done" => fs'[i].doc = fs[i].doc ]_vars

\* two workers have each written a non-empty partial graph
C8_Witness ==
    /\ pc = "await"
    /\ \E i, j \in DOMAIN fs :
          /\ i # j /\ fs[i].exists /\ fs[j].exists
          /\ fs[i].doc.triples # {} /\ fs[j].doc.triples # {}

\* C9: on the parallel path at most `workers` chunks are being processed at
\* any time, no chunk is started twice, and when the pool has shut down
\* every chunk has been processed exactly once.
C9_BoundedPoolEachChunkOnce ==
    InParallelCall =>
        /\ Cardinality({i \in DOMAIN futures : futures[i] = "running"}) <= workers
        /\ \A i \in DOMAIN futures :
              /\ runs[i] <= 1
              /\ futures[i] = "pending" <=> runs[i] = 0
        /\ pc = "merge" => \A i \in DOMAIN futures : runs[i] = 1 /\ futures[i] = "done"

\* the pool is full while a chunk still waits
C9_Witness ==
    /\ pc = "await"
    /\ Cardinality({i \in DOMAIN futures : futures[i] = "running"}) = workers
    /\ \E i \in DOMAIN futures : futures[i] = "pending"

-----------------------------------------------------------------------------
(* SpecDep: one call of the dependency parser on a string drawn from every *)
(* string of at most MaxDepLen characters over DepChars, and the examples  *)
(* the documentation gives.                                                *)

MaxDepLen == 5

\* a name character, the two separators, whitespace and the parentheses
DepChars == {"a", ",", "|", " ", "(", ")"}

\* "a (>= 1.0) | b, c"
ExampleAlternatives ==
    <<"a"," ","(",">","="," ","1",".","0",")"," ","|"," ","b",","," ","c">>

\* "pkgname"
ExampleBare == <<"p","k","g","n","a","m","e">>

\* "libc6 (>= 2.34), foo-bar | baz (<< 1), , (= 2) x, q(1)"
ExampleMixed ==
    <<"l","i","b","c","6"," ","(",">","="," ","2",".","3","4",")",","," ",
      "f","o","o","-","b","a","r"," ","|"," ","b","a","z"," ","(","<","<"," ","1",")",
      ","," ",","," ","(","="," ","2",")"," ","x",","," ","q","(","1",")">>

DepInputs ==
    UNION {[1..n -> DepChars] : n \in 0..MaxDepLen}
        \cup {ExampleAlternatives, ExampleBare, ExampleMixed}

\* the collector's variables while only the parser runs
CollectorIdle ==
    /\ eco = "deb" /\ parallel = FALSE /\ chunk_size = 1 /\ workers = 1
    /\ primary = <<>> /\ packages_data = <<>> /\ manifest = <<>> /\ other_data = <<>>
    /\ release_resp = NoResponse /\ manifest_resp = NoResponse
    /\ g = {} /\ bnode_ctr = 0 /\ pkg_map = <<>> /\ pc = "idle" /\ stage = "none"
    /\ entry_g = {} /\ chunks = <<>> /\ futures = <<>> /\ fs = <<>>
    /\ temp_files = <<>> /\ next_future = 1 /\ merge_pos = 1
    /\ processed_count = 0 /\ outcome = "idle"
    /\ runs = <<>> /\ merged = <<>>
    /\ first_run = NoRun

InitDep ==
    /\ MergerIdle /\ ProfilerIdle
    /\ dep_string \in DepInputs
    /\ dependencies = <<>>
    /\ dep_pc = "call"
    /\ CollectorIdle

\* dependencies = self._parse_dependency_string(pkg_data[dep_key])
CallParse ==
    /\ dep_pc = "call"
    /\ IF ParseRaises(dep_string)
       THEN dependencies' = dependencies /\ dep_pc' = "raised"
       ELSE dependencies' = ParseDependencyString(dep_string) /\ dep_pc' = "returned"
    /\ UNCHANGED <<dep_string, ovars, config, responses, cvars, hvars>>

NextDep == CallParse

SpecDep == InitDep /\ [][NextDep]_vars

-----------------------------------------------------------------------------
(* What the documentation says the parser returns, stated on positions of  *)
(* the input instead of by running the loop.                               *)

CommaPositions(s) == {i \in DOMAIN s : s[i] = ","}

ClauseCount(s) == Cardinality(CommaPositions(s)) + 1

\* the k-th comma-separated clause of s
ClauseOf(s, k) ==
    LET cs == CommaPositions(s)
        lo == IF k = 1 THEN 1 ELSE KthOf(cs, k - 1) + 1
        hi == IF k = ClauseCount(s) THEN Len(s) ELSE KthOf(cs, k) - 1
    IN  SubSeq(s, lo, hi)

\* t is c without its leading and trailing whitespace
IsTrimOf(t, c) ==
    \E lo \in 1..(Len(c) + 1) : \E hi \in 0..Len(c) :
        /\ t = SubSeq(c, lo, hi)
        /\ \A i \in 1..(lo - 1) : IsSpace(c[i])
        /\ \A i \in (hi + 1)..Len(c) : IsSpace(c[i])
        /\ lo <= hi => ~IsSpace(c[lo]) /\ ~IsSpace(c[hi])
        /\ lo > hi => lo = Len(c) + 1 /\ hi = Len(c)

\* the text of clause c before its first '|', trimmed
FirstChoice(c) ==
    LET bars == {i \in DOMAIN c : c[i] = "|"}
        hi == IF bars = {} THEN Len(c) ELSE KthOf(bars, 1) - 1
        raw == SubSeq(c, 1, hi)
    IN  CHOOSE t \in {SubSeq(raw, lo, h2) : lo \in 1..(Len(raw) + 1), h2 \in 0..Len(raw)} :
            IsTrimOf(t, raw)

\* the number of leading name characters of t
NameLen(t) ==
    CHOOSE n \in 0..Len(t) :
        /\ \A i \in 1..n : IsWordChar(t[i])
        /\ n < Len(t) => ~IsWordChar(t[n + 1])

\* the parenthesised constraints t carries right after its name: whitespace,
\* '(', a non-empty text without ')', then ')'
ConstraintsOf(t) ==
    LET n == NameLen(t)
    IN  {SubSeq(t, n + w + 2, n + w + 1 + m) :
            <<w, m>> \in {wm \in (1..Len(t)) \X (1..Len(t)) :
                /\ n + wm[1] + wm[2] + 2 <= Len(t)
                /\ \A i \in (n + 1)..(n + wm[1]) : IsSpace(t[i])
                /\ t[n + wm[1] + 1] = "("
                /\ \A i \in (n + wm[1] + 2)..(n + wm[1] + 1 + wm[2]) : t[i] # ")"
                /\ t[n + wm[1] + wm[2] + 2] = ")"}}

\* the (targetName, versionConstraint-or-null) pair of a matching choice
PairOf(t) ==
    <<SubSeq(t, 1, NameLen(t)),
      IF ConstraintsOf(t) = {} THEN None ELSE CHOOSE c \in ConstraintsOf(t) : TRUE>>

\* the clauses of s whose first alternative starts with a name
MatchingClauses(s) ==
    {k \in 1..ClauseCount(s) : NameLen(FirstChoice(ClauseOf(s, k))) >= 1}

ExpectedDependencies(s) ==
    [j \in 1..Cardinality(MatchingClauses(s)) |->
        PairOf(FirstChoice(ClauseOf(s, KthOf(MatchingClauses(s), j))))]

\* the names that occur in s as an alternative after a '|' of their clause
\* and not as the name of the clause's first alternative
NonFirstOnlyNames(s) ==
    {PairOf(a)[1] : a \in {alt \in UNION {{Alternatives(ClauseOf(s, k))[i] :
                                    i \in 2..Len(Alternatives(ClauseOf(s, k)))} :
                                 k \in 1..ClauseCount(s)} : NameLen(alt) >= 1}}
        \ {PairOf(FirstChoice(ClauseOf(s, k)))[1] : k \in MatchingClauses(s)}

\* C10: the parser returns, in input order, one (targetName,
\* versionConstraint-or-null) pair for each comma-separated clause whose
\* first '|' alternative matches name + optional parenthesised constraint; a
\* non-first alternative never appears in the output; the empty string
\* yields the empty sequence; "a (>= 1.0) | b, c" yields
\* [(a, ">= 1.0"), (c, null)] and "pkgname" yields [(pkgname, null)].
C10_ParserReturnsFirstAlternatives ==
    dep_pc = "returned" =>
        /\ dependencies = ExpectedDependencies(dep_string)
        /\ \A i \in DOMAIN dependencies :
              dependencies[i][1] \notin NonFirstOnlyNames(dep_string)
        /\ dep_string = <<>> => dependencies = <<>>
        /\ dep_string = ExampleAlternatives =>
              dependencies = << <<(<<"a">>), <<">","="," ","1",".","0">> >>,
                                <<(<<"c">>), None>> >>
        /\ dep_string = ExampleBare => dependencies = << <<ExampleBare, None>> >>

\* a field with an OR group and a constraint has been parsed
C10_Witness ==
    /\ dep_pc = "returned"
    /\ dep_string = ExampleAlternatives
    /\ Len(dependencies) = 2

\* dep_string without its k-th clause (and the comma that set it apart)
RemoveClause(s, k) ==
    LET cs == CommaPositions(s)
    IN  IF ClauseCount(s) = 1 THEN <<>>
        ELSE IF k = 1 THEN SubSeq(s, KthOf(cs, 1) + 1, Len(s))
        ELSE SubSeq(s, 1, KthOf(cs, k - 1) - 1)
                \o (IF k = ClauseCount(s) THEN <<>> ELSE SubSeq(s, KthOf(cs, k), Len(s)))

\* the clauses of s whose kept alternative does not match the pattern
UnmatchedClauses(s) == (1..ClauseCount(s)) \ MatchingClauses(s)

\* a (name, constraint-or-null) pair: a non-empty name of name characters
\* and, when there is a constraint, a non-empty text without ')'
IsDependencyPair(d) ==
    /\ Len(d) = 2
    /\ d[1] # <<>> /\ \A i \in DOMAIN d[1] : IsWordChar(d[1][i])
    /\ d[2] # None => (d[2] # <<>> /\ ")" \notin Range(d[2]))

\* C11: the parser never fails: for every input string it ends by returning
\* a sequence of pairs; and a clause whose kept alternative does not match
\* is dropped without changing the pairs of the other clauses: the result
\* is what the parser gives for the field without that clause.
C11_ParserNeverFailsDropsUnmatched ==
    /\ dep_pc # "raised"
    /\ dep_pc = "returned" =>
          /\ DOMAIN dependencies = 1..Len(dependencies)
          /\ Len(dependencies) = Cardinality(MatchingClauses(dep_string))
          /\ \A i \in DOMAIN dependencies : IsDependencyPair(dependencies[i])
          /\ \A k \in UnmatchedClauses(dep_string) :
                dependencies = ParseDependencyString(RemoveClause(dep_string, k))

\* a field with unmatched clauses between matching ones has been parsed
C11_Witness ==
    /\ dep_pc = "returned"
    /\ dep_string = ExampleMixed
    /\ Cardinality(UnmatchedClauses(dep_string)) = 2
    /\ Len(dependencies) = 3

-----------------------------------------------------------------------------
(* SpecRec: collect() on repositories whose listings hold damaged and      *)
(* colliding entries (the records family), and on Debian repositories      *)
(* whose Contents file holds lines of every shape (the link family).       *)

MaxRecords == 2
MaxLines == 2

\* Package: a / Version: 1 / Section: x -- the identity of DebStanzaA
DebStanzaSameIdentity ==
    << Field(kPackage, <<"a">>), Field(kVersion, <<"1">>),
       Field(<<"S","e","c","t","i","o","n">>, <<"x">>) >>

\* Package: a / Version: 2 -- the name of DebStanzaA, another version
DebStanzaSameName == << Field(kPackage, <<"a">>), <<"j","u","n","k">>, Field(kVersion, <<"2">>) >>

\* a stanza without Version, and one without Package
DebStanzaNoVersion == << Field(kPackage, <<"c">>), Field(kDepends, <<"a">>) >>
DebStanzaNoPackage == << Field(kVersion, <<"1">>) >>

DebRawStanzas ==
    {DebStanzaA, DebStanzaB, DebStanzaSameIdentity, DebStanzaSameName,
     DebStanzaNoVersion, DebStanzaNoPackage}

\* the name, version, release and arch of RpmEntryA under another checksum
RpmEntrySameIdentity ==
    [RpmEntryA EXCEPT !.summary = <<"t">>, !.checksum = <<"r">>]

\* a <package> without <name>, and one without <version>
RpmEntryNoName == [RpmEntryB EXCEPT !.name = Absent, !.checksum = <<"z">>]
RpmEntryNoVersion == [RpmEntryB EXCEPT !.version = Absent, !.checksum = <<"p">>]

RpmRawEntries ==
    {RpmEntryA, RpmEntryB, RpmEntrySameIdentity, RpmEntryNoName, RpmEntryNoVersion}

\* Contents lines: the sample lines, " /v<TAB>m u/t/b,a ", an empty line, "/q a,"
LinkLines ==
    { DebContentsLines[1], DebContentsLines[2], DebContentsLines[3],
      <<" ","/","v","\t","m"," ","u","/","t","/","b",",","a"," ">>,
      <<>>,
      <<"/","q"," ","a",",">> }

InitRec ==
    /\ ParserIdle /\ first_run = NoRun /\ MergerIdle /\ ProfilerIdle
    /\ parallel \in BOOLEAN
    /\ chunk_size \in 1..MaxChunkSize
    /\ workers = 1
    /\ \/ /\ eco \in {"deb", "rpm"}
          /\ primary \in ListsUpTo(IF eco = "deb" THEN DebRawStanzas ELSE RpmRawEntries,
                                   MaxRecords)
          /\ manifest = IF eco = "deb" THEN DebContentsLines ELSE RpmFilelists
       \/ /\ eco = "deb"
          /\ primary \in {<<DebStanzaA, DebStanzaB>>, <<DebStanzaB>>}
          /\ manifest \in ListsUpTo(LinkLines, MaxLines)
    /\ other_data = <<>>
    /\ packages_data = <<>>
    /\ CollectStart
    /\ stage = "none" /\ entry_g = {} /\ chunks = <<>> /\ futures = <<>> /\ fs = <<>>
    /\ temp_files = <<>> /\ next_future = 1 /\ merge_pos = 1
    /\ processed_count = 0 /\ outcome = "running"
    /\ runs = <<>> /\ merged = <<>>

SpecRec == InitRec /\ [][Next]_vars

\* the name index has been built
IndexBuilt == pc = "fetch_manifest" \/ manifest_resp.status # "none"

\* the package type of the collector
PackageType ==
    IF eco = "deb" THEN Uri("deb", <<"D","e","b","i","a","n","P","a","c","k","a","g","e">>)
    ELSE Uri("rpm", <<"R","p","m","P","a","c","k","a","g","e">>)

\* the nodes a graph types as packages
PackageNodes(graph) == {t[1] : t \in {u \in graph : u[2] = RdfType /\ u[3] = PackageType}}

\* the key of a record in the name index
IndexKey(pkg_data) == IF eco = "deb" THEN Get(pkg_data, kPackage) ELSE pkg_data.pkgid

\* the identity fields of a record
IdentityFields(pkg_data) ==
    IF eco = "deb" THEN <<Get(pkg_data, kPackage), Get(pkg_data, kVersion)>>
    ELSE <<pkg_data.name, pkg_data.version, pkg_data.release, pkg_data.arch>>

\* C12: when the name index has been built, for every normalized record the chunk
\* worker's emitter (and, for Debian, the single-threaded emitter) types
\* exactly one node as a package, the same node in both; records with equal
\* identity fields get the same node; the index maps the key of the record
\* it was last written for to that node; and wherever the package stage
\* processed the records, every node of the index is typed in the combined
\* graph.
C12_IdentityAgreesEverywhere ==
    pc = "fetch_manifest" =>
        /\ \A i \in DOMAIN packages_data :
              LET r == packages_data[i]
                  subjects == PackageNodes(EmitItem("packages", r, 0).triples)
              IN  /\ Cardinality(subjects) = 1
                  /\ eco = "deb" =>
                        PackageNodes(DebProcessItem("packages", r, 0).triples) = subjects
                  /\ \A j \in DOMAIN packages_data :
                        IdentityFields(packages_data[j]) = IdentityFields(r) =>
                            PackageNodes(EmitItem("packages", packages_data[j], 0).triples)
                                = subjects
                  /\ IndexKey(r) \in DOMAIN pkg_map
                  /\ (\A j \in DOMAIN packages_data :
                         IndexKey(packages_data[j]) = IndexKey(r) => j <= i) =>
                        subjects = {pkg_map[IndexKey(r)]}
        /\ (eco = "deb" \/ ~SingleThreaded("packages")) =>
              \A n \in DOMAIN pkg_map : pkg_map[n] \in PackageNodes(g)

\* two different records of one identity went through chunk workers and
\* into the index
C12_Witness ==
    /\ pc = "fetch_manifest" /\ stage = "packages" /\ Len(packages_data) = 2
    /\ packages_data[1] # packages_data[2]
    /\ IdentityFields(packages_data[1]) = IdentityFields(packages_data[2])
    /\ Cardinality(PackageNodes(g)) = 1

\* a raw entry of the primary metadata carries field k: a stanza line
\* "k: ...", a child element k
HasField(entry, k) ==
    IF eco = "deb"
    THEN \E i \in DOMAIN entry :
            ":" \in Range(entry[i]) /\ Strip(SplitFirstColon(entry[i])[1]) = k
    ELSE IF k = kPackage THEN entry.name # Absent ELSE entry.version # Absent

\* the raw entries that have both a name and a version
CompleteEntries ==
    {i \in DOMAIN primary : HasField(primary[i], kPackage) /\ HasField(primary[i], kVersion)}

\* C13 (as claimed): a raw entry lacking a name or a version is not counted
\* as a normalized record, gets no identity and no triples, and is not a
\* value of the name index: there are never more normalized records,
\* package nodes in the combined graph, or values in the name index than
\* entries with both fields, collect() returns no larger count, and no
\* package node carries an empty name or version.
C13_IncompleteEntriesRejected ==
    /\ Len(packages_data) <= Cardinality(CompleteEntries)
    /\ Cardinality(PackageNodes(g)) <= Cardinality(CompleteEntries)
    /\ Cardinality({pkg_map[n] : n \in DOMAIN pkg_map}) <= Cardinality(CompleteEntries)
    /\ outcome = "returned" => processed_count <= Cardinality(CompleteEntries)
    /\ \A t \in g :
          (t[1] \in PackageNodes(g)
             /\ t[2] \in {Uri(eco, <<"n","a","m","e">>), Uri(eco, <<"v","e","r","s","i","o","n">>)})
          => t[3] # Lit(<<>>)

\* the positions at which a whitespace-separated token of line starts
TokenStarts(line) ==
    {i \in DOMAIN line : ~IsSpace(line[i]) /\ (i = 1 \/ IsSpace(line[i - 1]))}

\* the token of line that starts at position i
TokenAt(line, i) ==
    SubSeq(line, i, CHOOSE j \in i..Len(line) :
                        /\ \A k \in i..j : ~IsSpace(line[k])
                        /\ j = Len(line) \/ IsSpace(line[j + 1]))

FirstToken(line) == TokenAt(line, CHOOSE i \in TokenStarts(line) : \A j \in TokenStarts(line) : i <= j)
LastToken(line) == TokenAt(line, CHOOSE i \in TokenStarts(line) : \A j \in TokenStarts(line) : j <= i)

\* c without its 'section/' prefix: what follows the last '/'
AfterLastSlash(c) ==
    LET slashes == {i \in DOMAIN c : c[i] = "/"}
    IN  IF slashes = {} THEN c
        ELSE SubSeq(c, (CHOOSE i \in slashes : \A j \in slashes : j <= i) + 1, Len(c))

\* the package names of the comma-separated last token of line
OwnerNames(line) ==
    {AfterLastSlash(ClauseOf(LastToken(line), k)) : k \in 1..ClauseCount(LastToken(line))}

\* the file-ownership triples the documentation gives a manifest line
ExpectedFileTriples(line, index) ==
    IF Cardinality(TokenStarts(line)) < 2 THEN {}
    ELSE { <<index[p], Uri("deb", <<"f","i","l","e","N","a","m","e">>), Lit(FirstToken(line))>> :
             p \in OwnerNames(line) \cap DOMAIN index }

\* the file-ownership triples of a graph
FileTriples(graph) == {t \in graph : t[2] = Uri(eco, <<"f","i","l","e","N","a","m","e">>)}

\* C14: Debian manifest linking: when the Contents file was fetched and
\* linked, the file-ownership triples of the combined graph are exactly,
\* for each line with at least two tokens, (index[p], fileName, first token)
\* for the names p of the comma-separated last token, 'section/' prefixes
\* removed, that are keys of the index; the single-threaded linker and the
\* chunk worker give these same triples for every line; and linking ends in
\* an error only when a chunk worker failed.
C14_DebianManifestLinking ==
    eco = "deb" =>
        /\ (pc = "return" /\ manifest_resp.status = "ok") =>
              FileTriples(g) =
                  UNION {ExpectedFileTriples(manifest[i], pkg_map) : i \in DOMAIN manifest}
        /\ pc = "fetch_manifest" =>
              \A i \in DOMAIN manifest :
                  /\ DebEmitContentsLine(manifest[i], pkg_map)
                        = ExpectedFileTriples(manifest[i], pkg_map)
                  /\ DebEmitContentsLineSingleThreaded(manifest[i], pkg_map)
                        = ExpectedFileTriples(manifest[i], pkg_map)
        /\ (pc = "done" /\ outcome = "error" /\ manifest_resp.status = "ok") =>
              \E i \in DOMAIN futures : futures[i] = "failed"

\* chunk workers linked "/x  s/a,z" (a section prefix, a name outside the
\* index) and a line without a package column: one triple
C14_Witness ==
    /\ eco = "deb" /\ pc = "return" /\ stage = "manifest" /\ merged = <<1, 2>>
    /\ manifest = <<DebContentsLines[1], DebContentsLines[3]>>
    /\ Cardinality(FileTriples(g)) = 1


-----------------------------------------------------------------------------
(* SpecClash: collect() on repositories whose listings hold records with   *)
(* '-' inside the name or the version.                                     *)

\* Package: a-1 / Version: 2
DebStanzaDashName ==
    << Field(kPackage, <<"a","-","1">>), Field(kVersion, <<"2">>) >>

\* Package: a / Version: 1-2
DebStanzaDashVersion ==
    << Field(kPackage, <<"a">>), Field(kVersion, <<"1","-","2">>) >>

\* name a-1, version 1, release 1 under its own checksum; and name a,
\* version 1-1, release 1 under the checksum of RpmEntryA
RpmEntryDashName == [RpmEntryA EXCEPT !.name = <<"a","-","1">>, !.checksum = <<"r">>]
RpmEntryDashVersion ==
    [RpmEntryA EXCEPT !.version = << <<"1","-","1">>, <<"1">> >>]

InitClash ==
    /\ ParserIdle /\ first_run = NoRun /\ MergerIdle /\ ProfilerIdle
    /\ parallel \in BOOLEAN
    /\ chunk_size \in 1..MaxChunkSize
    /\ workers = 1
    /\ eco \in {"deb", "rpm"}
    /\ primary \in ListsUpTo(IF eco = "deb"
                             THEN {DebStanzaA, DebStanzaDashName, DebStanzaDashVersion}
                             ELSE {RpmEntryA, RpmEntryDashName, RpmEntryDashVersion},
                             MaxRecords)
    /\ manifest = IF eco = "deb" THEN DebContentsLines ELSE RpmFilelists
    /\ other_data = IF eco = "deb" THEN <<>> ELSE RpmOther
    /\ packages_data = <<>>
    /\ CollectStart
    /\ stage = "none" /\ entry_g = {} /\ chunks = <<>> /\ futures = <<>> /\ fs = <<>>
    /\ temp_files = <<>> /\ next_future = 1 /\ merge_pos = 1
    /\ processed_count = 0 /\ outcome = "running"
    /\ runs = <<>> /\ merged = <<>>

SpecClash == InitClash /\ [][Next]_vars

\* the name and version triples a graph hangs on node n, without the node
NamesAndVersionsOf(graph, n) ==
    {<<t[2], t[3]>> : t \in {u \in graph :
        /\ u[1] = n
        /\ u[2] \in {Uri(eco, <<"n","a","m","e">>), Uri(eco, <<"v","e","r","s","i","o","n">>)}}}

\* C28: within one ecosystem the identity mapping is injective on
\* normalized records: two records whose identity fields differ (Debian:
\* name and version; RPM: name, version, release and arch) never get the
\* same package node from the emitters, so no package node of the combined
\* graph carries the name and version triples of two records.
C28_IdentityMappingInjective ==
    pc = "fetch_manifest" =>
        /\ \A i, j \in DOMAIN packages_data :
              IdentityFields(packages_data[i]) # IdentityFields(packages_data[j]) =>
                  PackageNodes(EmitItem("packages", packages_data[i], 0).triples)
                      \cap PackageNodes(EmitItem("packages", packages_data[j], 0).triples)
                      = {}
        /\ \A n \in PackageNodes(g) :
              \E i \in DOMAIN packages_data :
                  NamesAndVersionsOf(g, n)
                      = NamesAndVersionsOf(EmitItem("packages", packages_data[i], 0).triples, n)

\* record i is the last of its key in the listing
LastOfKey(i) ==
    \A j \in DOMAIN packages_data :
        IndexKey(packages_data[j]) = IndexKey(packages_data[i]) => j <= i

\* the keys the manifest names as owners of the file of file-ownership
\* triple t
KeysOfFile(t) ==
    IF eco = "deb"
    THEN UNION {OwnerNames(manifest[k]) :
                   k \in {m \in DOMAIN manifest :
                             /\ Cardinality(TokenStarts(manifest[m])) >= 2
                             /\ Lit(FirstToken(manifest[m])) = t[3]}}
    ELSE {manifest[k].pkgid :
             k \in {m \in DOMAIN manifest :
                       \E f \in DOMAIN manifest[m].files : Lit(manifest[m].files[f]) = t[3]}}

\* C29: the name index is a function of the natural key in which the last
\* record wins: once built, its keys are the keys of the normalized records
\* (Debian package name, RPM pkgid) and it maps each key to the node of the
\* last record of that key in input order; every file-ownership triple of
\* the combined graph sits on the index's node of a key the manifest names
\* for that file, so on no node that only an earlier record of the key has.
C29_NameIndexLastRecordWins ==
    IndexBuilt =>
        /\ DOMAIN pkg_map = {IndexKey(packages_data[i]) : i \in DOMAIN packages_data}
        /\ \A i \in DOMAIN packages_data :
              LastOfKey(i) =>
                  PackageNodes(EmitItem("packages", packages_data[i], 0).triples)
                      = {pkg_map[IndexKey(packages_data[i])]}
        /\ \A t \in FileTriples(g) :
              \E k \in KeysOfFile(t) \cap DOMAIN pkg_map : t[1] = pkg_map[k]
        /\ \A t \in FileTriples(g) :
              \A i \in DOMAIN packages_data :
                  (/\ IndexKey(packages_data[i]) \in KeysOfFile(t)
                   /\ KeysOfFile(t) \cap DOMAIN pkg_map = {IndexKey(packages_data[i])}
                   /\ t[1] \in PackageNodes(EmitItem("packages", packages_data[i], 0).triples))
                  => \E j \in DOMAIN packages_data :
                        /\ LastOfKey(j)
                        /\ IndexKey(packages_data[j]) = IndexKey(packages_data[i])
                        /\ IdentityFields(packages_data[j]) = IdentityFields(packages_data[i])

\* two records of one package name and different versions were indexed and
\* the Contents file was linked: the file of that name sits on the node of
\* the second record
C29_Witness ==
    /\ eco = "deb" /\ pc = "return" /\ manifest_resp.status = "ok"
    /\ Len(packages_data) = 2
    /\ IndexKey(packages_data[1]) = IndexKey(packages_data[2])
    /\ IdentityFields(packages_data[1]) # IdentityFields(packages_data[2])
    /\ FileTriples(g) # {}
    /\ \A t \in FileTriples(g) : t[1] = DebPkgUri(packages_data[2])
    /\ DebPkgUri(packages_data[1]) \in PackageNodes(g)

-----------------------------------------------------------------------------
(* Claims about the result of one collect() run (specification Spec)        *)

\* C15: whenever collect() returns, every subject of a file-ownership
\* (fileName) triple of the combined graph is a known package node: the
\* graph also holds that node's package type triple.
C15_FileOwnersAreKnownPackages ==
    outcome = "returned" => \A t \in FileTriples(g) : t[1] \in PackageNodes(g)


\* C16: a transport failure (HTTP error status, connection error, timeout)
\* while fetching the optional manifest (Debian Contents file, RPM
\* filelists) does not abort collect(): the run does not end in an error,
\* and when it returns, the count is the number of package records and the
\* combined graph holds no file-ownership triple.
C16_ManifestFailureDegrades ==
    manifest_resp.status \in TransportFailures =>
        /\ outcome # "error"
        /\ outcome = "returned" =>
              /\ processed_count = Len(packages_data)
              /\ FileTriples(g) = {}


\* the release/repository descriptor was asked for and could not be obtained
\* or lacks a required identifier (Debian: Codename, Suite or Origin of the
\* Release file; RPM: the location of the primary metadata in repomd.xml)
DescriptorUnusable ==
    \/ release_resp.status \in TransportFailures
    \/ /\ release_resp.status = "ok"
       /\ IF eco = "deb"
          THEN \E k \in {kCodename, kSuite, kOrigin} :
                   \A i \in DOMAIN release_resp.lines :
                       ~StartsWith(release_resp.lines[i], k \o <<":">>)
          ELSE kPrimary \notin Range(release_resp.lines)

\* C17: if the release/repository descriptor cannot be obtained or lacks a
\* required identifier, collect() aborts with an error and never returns a
\* record count.
C17_UnusableDescriptorAborts ==
    DescriptorUnusable =>
        /\ outcome # "returned"
        /\ pc = "done" => outcome = "error"


\* the predicates of the identity field Package and of the fields that are
\* emitted as structured dependency relations
StructuredPredicates ==
    {Uri("deb", ToLower(kPackage))} \cup {Uri("deb", ToLower(DepKeys[k])) : k \in DOMAIN DepKeys}

\* the flat literal attribute triples of a graph for those fields
FlatStructuredTriples(graph) ==
    {t \in graph : t[2] \in StructuredPredicates /\ t[3][1] = "lit"}

\* C18: for every Debian record, in the single-threaded emitter and in the
\* chunk worker, no flat literal attribute triple is emitted for the identity
\* fields nor for a field emitted as structured dependency relations
\* (Depends, Recommends, Suggests, Conflicts, Replaces, Provides): neither
\* emitter's output for a record, nor the combined graph, holds one.
C18_NoFlatLiteralForStructuredFields ==
    eco = "deb" =>
        /\ FlatStructuredTriples(g) = {}
        /\ \A i \in DOMAIN packages_data :
              /\ FlatStructuredTriples(
                     DebEmitPackage(packages_data[i], Codename, 0).triples) = {}
              /\ FlatStructuredTriples(
                     DebEmitPackageSingleThreaded(packages_data[i], Codename, 0).triples) = {}


\* node has a type tag triple in graph
HasTypeTag(graph, node) == \E t \in graph : t[1] = node /\ t[2] = RdfType

\* the blank nodes of a graph that are the object of a relation
RelationBNodes(graph) == {t[3] : t \in {u \in graph : IsBNode(u[3])}}

\* the nodes a graph creates as a package (the subject of a name triple), as
\* a suite or a distribution (the ends of inSuite and partOfDistribution), or
\* as a blank node hung on a relation (dependency relations, changelog
\* entries)
CreatedNodes(graph) ==
    RelationBNodes(graph)
        \cup {t[1] : t \in {u \in graph : u[2] = Uri(eco, <<"n","a","m","e">>)}}
        \cup {t[3] : t \in {u \in graph : u[2] = Uri("deb", <<"i","n","S","u","i","t","e">>)}}
        \cup UNION {{t[1], t[3]} : t \in {u \in graph : u[2] =
                Uri("deb", <<"p","a","r","t","O","f","D","i","s","t","r","i","b","u","t","i","o","n">>)}}

\* C19: after collect(), every node created in the combined graph as a
\* package, dependency-relation blank node, distribution, suite or changelog
\* entry has an rdf:type triple; in particular every blank node that is the
\* object of a dependency relation has one.
C19_EveryCreatedNodeIsTyped ==
    outcome = "returned" => \A n \in CreatedNodes(g) : HasTypeTag(g, n)


\* C20: whenever collect() returns, the returned number is the count of
\* records that were processed into the graph: it equals the number of
\* normalized package records, and the package triples of every counted
\* record (those without blank nodes, whose labels depend on the process)
\* are in the combined graph.
C20_ReturnedCountIsProcessedRecords ==
    outcome = "returned" =>
        /\ processed_count = Len(packages_data)
        /\ \A i \in DOMAIN packages_data :
              GroundTriples(EmitItem("packages", packages_data[i], 0).triples) \subseteq g


\* the relation triples of a graph that point to blank node b
RelationsTo(graph, b) == {t \in graph : t[3] = b}

\* the blank nodes of the hand-off files merged so far by the running call
RECURSIVE MergedBNodes(_)
MergedBNodes(k) == IF k = 0 THEN 0 ELSE MergedBNodes(k - 1) + fs[merged[k]].doc.bnodes

\* C22: after the merge of partial graphs no blank node of the combined
\* graph stands for two relations: every dependency or changelog blank node
\* is the object of exactly one relation triple (of one package), and the
\* blank nodes of different chunks, and those already in the combined graph,
\* are never identified: the combined graph has as many blank nodes as it
\* had at the entry of the call plus those of every merged file.
C22_BlankNodesScopedPerPartialResult ==
    /\ \A b \in BNodesOf(g) : Cardinality(RelationsTo(g, b)) = 1
    /\ pc = "merge" =>
          Cardinality(BNodesOf(g)) = Cardinality(BNodesOf(entry_g)) + MergedBNodes(Len(merged))

\* changelog chunks were merged onto a graph that already held the blank
\* nodes of merged package chunks
C22_Witness ==
    /\ pc = "merge" /\ stage = "other" /\ Len(merged) >= 2
    /\ BNodesOf(entry_g) # {}
    /\ \A i \in DOMAIN merged : fs[merged[i]].doc.bnodes >= 1

\* the place of a position of collect() in the stage order: resolve release,
\* fetch and normalize the primary metadata, emit/merge packages, build the
\* name index, link the manifest, (RPM: changelogs,) return
StageRank(p, st) ==
    CASE p = "release" -> 0
      [] p = "start" -> 1
      [] p = "fetch_packages" -> 2
      [] p = "packages" -> 3
      [] p = "build_map" -> 4
      [] p = "fetch_manifest" -> 5
      [] p = "manifest" -> 6
      [] p = "fetch_other" -> 7
      [] p = "other" -> 8
      [] p = "return" -> 9
      [] p = "done" -> 10
      [] OTHER -> (CASE st = "packages" -> 3 [] st = "manifest" -> 6 [] st = "other" -> 8)

\* the package stage is complete: its items went through the caller's
\* branch or the first branch of collect_parallel, or every chunk of the
\* call was merged
PackageStageComplete ==
    \/ pc = "packages"
    \/ /\ pc = "merge" /\ stage = "packages"
       /\ merged = [k \in DOMAIN chunks |-> k]
       /\ \A k \in DOMAIN chunks : ~fs[k].exists

\* one step of collect() keeps the stage order
StepKeepsStageOrder ==
    /\ StageRank(pc', stage') >= StageRank(pc, stage)
    /\ pc' # pc =>
          /\ pc' = "start" => pc = "release"
          /\ pc' = "fetch_packages" => pc = "start"
          /\ pc' = "packages" => pc = "fetch_packages"
          /\ pc' = "build_map" => PackageStageComplete
          /\ pc' = "fetch_manifest" => pc = "build_map"
          /\ pc' = "manifest" => pc = "fetch_manifest"
    /\ packages_data' # packages_data => pc = "fetch_packages"
    /\ pkg_map' # pkg_map =>
          /\ pc = "build_map"
          /\ pkg_map' = IF eco = "deb" THEN DebBuildPackageMap(packages_data)
                        ELSE RpmBuildPackageMap(packages_data)
    /\ StageRank(pc, stage) >= 5 => pkg_map' = pkg_map /\ packages_data' = packages_data
    /\ StageRank(pc, stage) < 6 => FileTriples(g') = {}

\* C23: in every run of collect() the stages occur in the order resolve
\* release -> fetch primary metadata -> normalize -> emit/merge packages ->
\* build name index -> link manifest -> return: manifest linking never
\* starts before every package chunk of the run has been merged, the name
\* index is built only from the normalized records and is never modified
\* once manifest linking has started.
C23_StagesInOrder == [][StepKeepsStageOrder]_vars

\* a Debian run went through every stage: package chunks merged, index
\* built, manifest chunks linked
C23_Witness ==
    /\ eco = "deb" /\ pc = "return" /\ stage = "manifest" /\ Len(merged) >= 2
    /\ Len(packages_data) >= 2 /\ DOMAIN pkg_map # {} /\ FileTriples(g) # {}

\* C24: when one chunk worker fails, its sibling chunks are not cancelled:
\* while the pool shuts down the failure has not left collect_parallel, and
\* when it has, every chunk submitted by the call was started once and ran
\* to its end.
C24_SiblingsRunToCompletion ==
    /\ pc = "shutdown" =>
          /\ outcome = "running"
          /\ \A i \in DOMAIN futures : runs[i] <= 1
    /\ (pc = "done" /\ outcome = "error" /\ \E i \in DOMAIN futures : futures[i] = "failed") =>
          \A i \in DOMAIN futures : runs[i] = 1 /\ futures[i] \in {"done", "failed"}

\* the first of three chunks failed on a pool of one worker; its siblings
\* ran to their end before the error left collect()
C24_Witness ==
    /\ pc = "done" /\ outcome = "error" /\ workers = 1
    /\ futures = <<"failed", "done", "done">>
    /\ runs = <<1, 1, 1>>


\* collect_parallel's parallel path is not running: it was never entered,
\* or it has returned or raised
OutsideParallelPath == pc \notin {"await", "shutdown", "merge"}

\* the hand-off temp files of the last collect_parallel call still on disk
TempFilesLeft == {i \in DOMAIN fs : fs[i].exists}

\* every hand-off file of the last call was parsed exactly once
EachParsedOnce ==
    \A i \in DOMAIN fs : Cardinality({k \in DOMAIN merged : merged[k] = i}) = 1

\* C27: on every exit from collect_parallel's parallel path, normal or by
\* error (a worker fails), no hand-off temp file created by that call's
\* workers remains on disk, and on normal return each file was parsed into
\* the combined graph exactly once before its deletion.
C27_NoTempFileRemains ==
    OutsideParallelPath =>
        /\ TempFilesLeft = {}
        /\ outcome # "error" => EachParsedOnce

-----------------------------------------------------------------------------
(* The pipeline run twice over the same inputs (specification SpecTwice):   *)
(* a second collector is constructed on a fresh empty graph, with the same  *)
(* repository, parallel flag, chunk size and workers, and collect() runs    *)
(* again.                                                                   *)

\* the records of a repository that is collected twice
MaxRunRecords == 2

InitTwice ==
    /\ ParserIdle /\ first_run = NoRun /\ MergerIdle /\ ProfilerIdle
    /\ eco \in {"deb", "rpm"}
    /\ parallel \in BOOLEAN
    /\ chunk_size \in 1..MaxChunkSize
    /\ workers = 1
    /\ primary \in ListsUpTo(IF eco = "deb" THEN DebStanzas ELSE RpmEntries, MaxRunRecords)
    /\ packages_data = <<>>
    /\ manifest = IF eco = "deb" THEN DebContentsLines ELSE RpmFilelists
    /\ other_data = IF eco = "deb" THEN <<>> ELSE RpmOther
    /\ CollectStart
    /\ stage = "none" /\ entry_g = {} /\ chunks = <<>> /\ futures = <<>> /\ fs = <<>>
    /\ temp_files = <<>> /\ next_future = 1 /\ merge_pos = 1
    /\ processed_count = 0 /\ outcome = "running"
    /\ runs = <<>> /\ merged = <<>>

GraphOfEarlierRun == g

\* the graph handed to the constructor of the second collector: Graph()
FreshGraph == {}

\* BaseCollector.__init__(g = Graph(), ...) and collect() once more after a
\* run that returned: the first run's graph is kept aside, the new run
\* starts on an empty graph.  BNode() and the Turtle parser never hand out
\* an identifier twice, so the count of identifiers handed out goes on.
Rerun ==
    /\ pc = "done" /\ outcome = "returned" /\ ~first_run.done
    /\ first_run' = [done |-> TRUE, g |-> g, answers |-> responses]
    /\ g' = FreshGraph /\ pkg_map' = <<>> /\ packages_data' = <<>>
    /\ release_resp' = NoResponse /\ manifest_resp' = NoResponse
    /\ pc' = IF eco = "deb" THEN "release" ELSE "fetch_packages"
    /\ stage' = "none" /\ entry_g' = {} /\ chunks' = <<>> /\ futures' = <<>> /\ fs' = <<>>
    /\ temp_files' = <<>> /\ next_future' = 1 /\ merge_pos' = 1
    /\ processed_count' = 0 /\ outcome' = "running"
    /\ runs' = <<>> /\ merged' = <<>>
    /\ UNCHANGED <<dvars, mvars, pvars, eco, parallel, chunk_size, workers, primary,
                   manifest, other_data, bnode_ctr>>

NextTwice == Next \/ Rerun

SpecTwice == InitTwice /\ [][NextTwice]_vars

\* both runs have returned, and the mirror answered both the same
BothRunsReturned ==
    first_run.done /\ outcome = "returned" /\ first_run.answers = responses

-----------------------------------------------------------------------------
(* BaseCollector.merge_turtle_files (specification SpecMerge): the files    *)
(* of temp_files are copied line by line into output_file, the later ones   *)
(* without their leading '@prefix' and blank lines.  A line is the          *)
(* characters up to and including its newline.                              *)

MaxFiles == 2
MaxFileLines == 2

kAtPrefix == <<"@","p","r","e","f","i","x">>

PrefixLine == kAtPrefix \o <<" ", "d", ":", "\n">>
BlankLine == <<"\n">>
StatementLine == <<"d", ":", "a", " ", ".", "\n">>

\* the lines a Turtle file is made of
FileLines == {PrefixLine, BlankLine, StatementLine}

\* "if not line.startswith('@prefix') and line.strip()"
IsWrittenFirst(line) == ~StartsWith(line, kAtPrefix) /\ Strip(line) # <<>>

SkipNothing(lines, i) == lines

\* "for line in inf: if ...: outf.write(line); break" and then
\* "outf.writelines(inf)": what a later file adds to the output, reading
\* from its i-th line
RECURSIVE SkipPrefixes(_, _)
SkipPrefixes(lines, i) ==
    IF i > Len(lines) THEN <<>>
    ELSE IF IsWrittenFirst(lines[i]) THEN SubSeq(lines, i, Len(lines))
    ELSE SkipPrefixes(lines, i + 1)

InitMerge ==
    /\ ParserIdle /\ CollectorIdle /\ ProfilerIdle
    /\ mt_files \in ListsUpTo(ListsUpTo(FileLines, MaxFileLines), MaxFiles)
    /\ mt_exists = [k \in DOMAIN mt_files |-> TRUE]
    /\ mt_out = <<>> /\ mt_i = 1 /\ mt_pc = "loop"

\* one round of "for i, temp_file in enumerate(temp_files)": copy, unlink
MergeTurtleFile ==
    /\ mt_pc = "loop" /\ mt_i <= Len(mt_files)
    /\ mt_out' = mt_out \o (IF mt_i > 1 THEN SkipPrefixes(mt_files[mt_i], 1)
                            ELSE mt_files[mt_i])
    /\ mt_exists' = [mt_exists EXCEPT ![mt_i] = FALSE]
    /\ mt_i' = mt_i + 1
    /\ UNCHANGED <<dvars, first_run, pvars, mt_files, mt_pc, config, responses, cvars, hvars>>

\* the loop is over, output_file is closed
MergeTurtleClose ==
    /\ mt_pc = "loop" /\ mt_i > Len(mt_files)
    /\ mt_pc' = "closed"
    /\ UNCHANGED <<dvars, first_run, pvars, mt_files, mt_exists, mt_out, mt_i, config,
                   responses, cvars, hvars>>

NextMerge == MergeTurtleFile \/ MergeTurtleClose

SpecMerge == InitMerge /\ [][NextMerge]_vars

\* the lines of a sequence that are '@prefix' lines / statement lines
PrefixLinesOf(lines) == SelectSeq(lines, LAMBDA l : StartsWith(l, kAtPrefix))
StatementLinesOf(lines) ==
    SelectSeq(lines, LAMBDA l : ~StartsWith(l, kAtPrefix) /\ Strip(l) # <<>>)

\* the positions of the lines of a file that are neither blank nor '@prefix'
StatementPositions(lines) ==
    {k \in DOMAIN lines : ~StartsWith(lines[k], kAtPrefix) /\ Strip(lines[k]) # <<>>}

\* a later file from its first line that is neither blank nor an '@prefix'
\* line, nothing if it has no such line
FromFirstStatement(lines) ==
    IF StatementPositions(lines) = {} THEN <<>>
    ELSE SubSeq(lines,
                CHOOSE k \in StatementPositions(lines) :
                    \A j \in StatementPositions(lines) : k <= j,
                Len(lines))

\* the output the documentation gives for a list of files
RECURSIVE ExpectedOutput(_, _)
ExpectedOutput(files, n) ==
    IF n = 0 THEN <<>>
    ELSE ExpectedOutput(files, n - 1)
            \o (IF n = 1 THEN files[1] ELSE FromFirstStatement(files[n]))

\* the number of statement lines of the first n files
RECURSIVE StatementCount(_, _)
StatementCount(files, n) ==
    IF n = 0 THEN 0 ELSE StatementCount(files, n - 1) + Len(StatementLinesOf(files[n]))

\* the output is the documented one, every statement line is written once,
\* every input file is deleted
MergeCopiesStatements ==
    /\ mt_out = ExpectedOutput(mt_files, Len(mt_files))
    /\ Len(StatementLinesOf(mt_out)) = StatementCount(mt_files, Len(mt_files))
    /\ \A k \in DOMAIN mt_exists : ~mt_exists[k]

RECURSIVE LatePrefixCount(_, _)
LatePrefixCount(files, n) ==
    IF n <= 1 THEN 0
    ELSE LatePrefixCount(files, n - 1) + Len(PrefixLinesOf(FromFirstStatement(files[n])))

-----------------------------------------------------------------------------
(* The profiler (specification SpecProf): step() context managers entered   *)
(* inside one another, log() calls between them, the clock advancing.       *)

MaxDepth == 2
MaxSteps == 3
MaxClock == 3

InitProf ==
    /\ ParserIdle /\ CollectorIdle /\ MergerIdle
    /\ pf_enabled \in BOOLEAN
    /\ pf_current = "None" /\ pf_start = NoTime
    /\ pf_timings = [n \in StepNames |-> <<>>] /\ pf_stack = <<>> /\ pf_clock = 1
    /\ pf_raising = FALSE /\ pf_log = NoLog /\ pf_finished = [n \in StepNames |-> 0]

\* the step() calls made so far
StepsEntered ==
    Len(pf_stack) + pf_finished["Download Package Metadata"]
        + pf_finished["Download Packages.gz"]

\* "with profiler.step(name):" is entered: up to the yield
ProfStepEnter(name) ==
    /\ ~pf_raising /\ Len(pf_stack) < MaxDepth /\ StepsEntered < MaxSteps
    /\ IF ~pf_enabled
       THEN /\ pf_stack' = Append(pf_stack, [name |-> name, start_time |-> NoTime,
                                             timed |-> FALSE])
            /\ UNCHANGED <<pf_current, pf_start>>
       ELSE /\ pf_current' = name
            /\ pf_start' = pf_clock
            /\ pf_stack' = Append(pf_stack, [name |-> name, start_time |-> pf_clock,
                                             timed |-> TRUE])
    /\ UNCHANGED <<dvars, first_run, mvars, pf_enabled, pf_timings, pf_clock, pf_raising,
                   pf_log, pf_finished, config, responses, cvars, hvars>>

\* the body of the innermost open step ends, normally or by an exception:
\* the rest of step() after the yield, the finally block included
ProfStepExit ==
    /\ pf_stack # <<>>
    /\ \E raised \in BOOLEAN :
          /\ pf_raising => raised
          /\ pf_raising' = (raised /\ Len(pf_stack) > 1)
    /\ LET f == pf_stack[Len(pf_stack)]
       IN  /\ IF f.timed
              THEN /\ pf_timings' = [pf_timings EXCEPT
                                        ![f.name] = Append(@, pf_clock - f.start_time)]
                   /\ pf_current' = "None"
                   /\ pf_start' = NoTime
              ELSE UNCHANGED <<pf_timings, pf_current, pf_start>>
           /\ pf_finished' = [pf_finished EXCEPT ![f.name] = @ + 1]
    /\ pf_stack' = SubSeq(pf_stack, 1, Len(pf_stack) - 1)
    /\ UNCHANGED <<dvars, first_run, mvars, pf_enabled, pf_clock, pf_log, config, responses,
                   cvars, hvars>>

\* profiler.log(message); open and since record where the call was made:
\* how many steps were open and the time since the innermost one began
ProfLog ==
    /\ ~pf_raising
    /\ LET open == Len(pf_stack)
           since == IF pf_stack = <<>> \/ ~pf_stack[Len(pf_stack)].timed THEN 0
                    ELSE pf_clock - pf_stack[Len(pf_stack)].start_time
       IN  pf_log' =
             IF ~pf_enabled
             THEN [kind |-> "silent", elapsed |-> 0, open |-> open, since |-> since]
             ELSE IF pf_current # "None" /\ pf_start # NoTime
             THEN [kind |-> "elapsed", elapsed |-> pf_clock - pf_start,
                   open |-> open, since |-> since]
             ELSE [kind |-> "plain", elapsed |-> 0, open |-> open, since |-> since]
    /\ UNCHANGED <<dvars, first_run, mvars, pf_enabled, pf_current, pf_start, pf_timings,
                   pf_stack, pf_clock, pf_raising, pf_finished, config, responses, cvars,
                   hvars>>

\* time passes
ProfTick ==
    /\ pf_clock < MaxClock
    /\ pf_clock' = pf_clock + 1
    /\ UNCHANGED <<dvars, first_run, mvars, pf_enabled, pf_current, pf_start, pf_timings,
                   pf_stack, pf_raising, pf_log, pf_finished, config, responses, cvars,
                   hvars>>

NextProf ==
    \/ \E name \in StepNames : ProfStepEnter(name)
    \/ ProfStepExit
    \/ ProfLog
    \/ ProfTick

SpecProf == InitProf /\ [][NextProf]_vars

\* while a step is open and no exception is on its way, the profiler's
\* current step is the innermost open one
CurrentIsInnermostOpen ==
    (pf_enabled /\ pf_stack # <<>> /\ ~pf_raising) =>
        /\ pf_current = pf_stack[Len(pf_stack)].name
        /\ pf_start = pf_stack[Len(pf_stack)].start_time

\* a log() call made inside an open step printed the time since that step
\* began
LogRelativeToOpenStep ==
    (pf_log.kind \in {"elapsed", "plain"} /\ pf_log.open > 0) =>
        pf_log.kind = "elapsed" /\ pf_log.elapsed = pf_log.since

\* every execution of a step that has ended left one duration
OneDurationPerExecution ==
    pf_enabled => \A n \in StepNames : Len(pf_timings[n]) = pf_finished[n]

\* C26: profiler steps nest: while profiling is enabled and an outer step is
\* still open, after a nested step exits the current step (current_step,
\* step_start) is again the outer step, so log() in the rest of the outer
\* step reports the time since the outer step began; and each step
\* execution appends exactly one duration to timings[name], also when its
\* body raises.
C26_StepsNest ==
    /\ CurrentIsInnermostOpen
    /\ LogRelativeToOpenStep
    /\ OneDurationPerExecution

=============================================================================
